---- MODULE Spec2Model ----
(***************************************************************************)
(* State-machine model of src/src/convert_av1.ts (the current revision,    *)
(* lines 395-833): one run of main(), from the existence check of the      *)
(* input to the final exit code.  Every await of main is one action; the   *)
(* outcome of an external subprocess or of a filesystem call is an input   *)
(* drawn from a small set.                                                 *)
(*                                                                         *)
(* Units.  JavaScript numbers are doubles; the model is integer.  The      *)
(* duration parsed from "HH:MM:SS.cc" has a resolution of 1/100 s, so      *)
(* totalDurationSeconds holds hundredths of a second.  Bitrates are kbps,  *)
(* sizes are bytes.  Math.round is computed exactly (round half up).       *)
(***************************************************************************)
EXTENDS Integers, Sequences, FiniteSets, TLC

VARIABLES
    pc,                      \* position of main()
    inputExists,             \* the input path names an existing file
    assetEmbedded,           \* ffmpeg-static / ffprobe-static give an asset path
    ffmpegSpawnPathCached,   \* module-level cache, line 649
    ffprobeSpawnPathCached,  \* module-level cache, line 650
    tempBinaries,            \* helper binaries extracted to the temp directory
    probeText,               \* text returned by probeWithFfmpeg
    totalDurationSeconds,    \* parseDurationSeconds(probeText), in 1/100 s
    mapIdx,                  \* findAttachedPicMapIndex(probeText), "" for null
    thumbFile,               \* the temporary thumbnail on disk
    inputSizeBytes,
    origTotalBitrateKbps,
    audioQuery,              \* outcome of the ffprobe audio-stream query
    audioTotalBitrateKbps,
    audioStreamCount,
    targetVideoBitrateKbps,
    encoderList,             \* stdout and stderr of "ffmpeg -encoders"
    usingNvenc,
    videoEncoder,
    videoEncoderOptions,     \* tokenizeOptions(videoEncoderOptions)
    ffArgs,
    launches,                \* argument lists of the encode subprocesses spawned
    encodeResults,           \* exit code and failure text of each encode closed
    exitCode,                \* process.exitCode (0 while unset)
    rmCalls,                 \* calls of rm(tempThumb)
    errorMessage,            \* last message written by a catch block
    thumbRuns,               \* thumbnail subprocesses run, with their exit codes
    spawned,                 \* external subprocesses spawned so far
    procLog,                 \* spawn and close events of the subprocesses
    \* state of one call of encodeWithProgress, lines 566-646
    encPc,                   \* "idle", "running", "resolved" or "rejected"
    progressBar,             \* a progress bar was created (line 576)
    lastPercent,             \* line 571
    outTimeMs,               \* ms of the last progress line matched (line 593)
    percent,                 \* percent of the last progress line matched
    updates,                 \* percents passed to progressBar.update
    stdoutBuf,               \* line 617
    stderrBuf,               \* line 618
    lastLines,               \* the lines quoted by the rejection (line 641)
    childCode,               \* exit code of the engine, -1 while it is alive
    errorCode,               \* the exit code quoted by the rejection (line 642)
    settled,                 \* calls of resolve and reject
    \* state of one call of runCommand, lines 431-440
    rcPc,                    \* "idle", "running" or "resolved"
    rcChildren,              \* child processes spawned by the call
    rcEmitted,               \* what the child has written, in order
    rcStdout,                \* line 434
    rcStderr,                \* line 435
    rcResult,                \* values the promise was resolved with
    rcExit,                  \* exit code of the child, -1 while it is alive
    \* state of one call of promptForPath, lines 450-459
    promptPc,                \* "idle", "asked", "answered" or "returned"
    answer,                  \* the line entered, line 456
    promptReturn             \* the value returned, line 458

mainVars == <<pc, inputExists, assetEmbedded, ffmpegSpawnPathCached,
              ffprobeSpawnPathCached, tempBinaries, probeText,
              totalDurationSeconds, mapIdx, thumbFile, inputSizeBytes,
              origTotalBitrateKbps, audioQuery, audioTotalBitrateKbps,
              audioStreamCount, targetVideoBitrateKbps, encoderList,
              usingNvenc, videoEncoder, videoEncoderOptions, ffArgs, launches,
              encodeResults, exitCode, rmCalls, errorMessage, thumbRuns,
              spawned, procLog>>

progressVars == <<encPc, progressBar, lastPercent, outTimeMs, percent,
                  updates, stdoutBuf, stderrBuf, lastLines, childCode,
                  errorCode, settled>>

runVars == <<rcPc, rcChildren, rcEmitted, rcStdout, rcStderr, rcResult,
             rcExit>>

promptVars == <<promptPc, answer, promptReturn>>

vars == <<mainVars, progressVars, runVars, promptVars>>

-----------------------------------------------------------------------------
(* Bounds and program constants *)

MaxAudioStreams == 2

\* Data events delivered to one call of encodeWithProgress or of runCommand.
MaxChunks == 3

\* Characters of the line entered at the prompt.
MaxLineLen == 4

MinVideoKbps == 300

DefaultAudioKbps == 192

CentisPerSecond == 100

\* slice(-20), line 641
LastLinesKept == 20

-----------------------------------------------------------------------------
(* Arithmetic *)

\* Math.round(a / b) for a >= 0, b > 0: the nearest integer, halves upwards.
MathRoundDiv(a, b) ==
    (a \div b) + (IF 2 * (a % b) >= b THEN 1 ELSE 0)

Max(a, b) == IF a >= b THEN a ELSE b

-----------------------------------------------------------------------------
(* Probe text: a sequence of lines.  A line carries the label in front of   *)
(* a time (the regular expression accepts "Duration" and "Durée"), the time *)
(* as <<hh, mm, ss>> or <<hh, mm, ss, cc>>, the "Stream #i:j" specifier it  *)
(* holds ("" for none) and the annotations found on it.                     *)

Line(label, hms, spec, tags) ==
    [label |-> label, hms |-> hms, spec |-> spec, tags |-> tags]

NoTime == << >>

VideoLine == Line("", NoTime, "0:0", {"Video:"})
AudioLine(spec) == Line("", NoTime, spec, {"Audio:"})
CoverLine(spec) == Line("", NoTime, spec, {"Video:", "attached pic"})

ProbeTexts ==
    { \* "Duration: N/A": the label without a time, no streams
      << Line("Duration", NoTime, "", {}) >>,
      \* 120 s, one audio stream, no cover
      << Line("Duration", <<0, 2, 0, 0>>, "", {}), VideoLine, AudioLine("0:1") >>,
      \* 120 s under the French label, one audio stream, cover at 0:2
      << Line("Durée", <<0, 2, 0>>, "", {}), VideoLine, AudioLine("0:1"),
         CoverLine("0:2") >>,
      \* 01:02:03.45, two audio streams, an "attached pic" remark without a
      \* stream specifier before the first of two cover lines, and a second
      \* duration after them
      << Line("Duration", <<1, 2, 3, 45>>, "", {}), VideoLine, AudioLine("0:1"),
         AudioLine("0:2"), Line("", NoTime, "", {"attached pic"}),
         CoverLine("0:3"), CoverLine("0:4"),
         Line("Duration", <<0, 0, 10, 0>>, "", {}) >>,
      \* a start time but no Duration label: duration unknown, audio only
      << Line("start", <<0, 0, 1, 50>>, "", {}), AudioLine("0:0") >> }

\* The labels of /(?:Duration|Durée):\s+.../, line 477
DurationLabels == {"Duration", "Durée"}

\* parseDurationSeconds without the centiseconds.
parseDurationSecondsNoCentis(text) ==
    LET hits == { i \in 1..Len(text) :
                    text[i].label \in DurationLabels /\ Len(text[i].hms) >= 3 }
    IN  IF hits = {} THEN 0
        ELSE LET i == CHOOSE k \in hits : \A j \in hits : k <= j
                 m == text[i].hms
             IN  (m[1] * 3600 + m[2] * 60 + m[3]) * CentisPerSecond

\* findAttachedPicMapIndex taking the specifier of the first stream line
\* once some line mentions an attached picture.
findAttachedPicMapIndexAnyStream(text) ==
    LET pics == { i \in 1..Len(text) : "attached pic" \in text[i].tags }
        hits == { i \in 1..Len(text) : text[i].spec # "" }
    IN  IF pics = {} \/ hits = {} THEN ""
        ELSE text[CHOOSE k \in hits : \A j \in hits : k <= j].spec

\* parseDurationSeconds, lines 475-487; the result in 1/100 s.  The fields
\* of a time are the two-digit numbers the expression captures.
parseDurationSeconds(text) ==
    LET hits == { i \in 1..Len(text) :
                    text[i].label \in DurationLabels /\ Len(text[i].hms) >= 3 }
    IN  IF hits = {} THEN 0
        ELSE LET i == CHOOSE k \in hits : \A j \in hits : k <= j
                 m == text[i].hms
                 cs == IF Len(m) >= 4 THEN m[4] ELSE 0
             IN  (m[1] * 3600 + m[2] * 60 + m[3]) * CentisPerSecond + cs

\* findAttachedPicMapIndex, lines 489-500; "" stands for null.
findAttachedPicMapIndex(text) ==
    LET hits == { i \in 1..Len(text) :
                    "attached pic" \in text[i].tags /\ text[i].spec # "" }
    IN  IF hits = {} THEN ""
        ELSE text[CHOOSE k \in hits : \A j \in hits : k <= j].spec

\* (probeText.match(/Audio:/g) || []).length, line 550
AudioMarkerCount(text) ==
    Cardinality({ i \in 1..Len(text) : "Audio:" \in text[i].tags })

-----------------------------------------------------------------------------
(* Inputs the environment supplies *)

\* st.size of the input, in bytes (line 729).
Sizes == {0, 1000, 7499, 7500, 100000000, 102400000, 104857600}

\* One entry of json.streams: bit_rate absent, or a number of bits per second.
NoBitRate == [has_bit_rate |-> FALSE, bit_rate |-> 0]
BitRate(n) == [has_bit_rate |-> TRUE, bit_rate |-> n]
StreamEntries == {NoBitRate, BitRate(96500)}

StreamLists ==
    UNION { [1..n -> StreamEntries] : n \in 0..MaxAudioStreams }

\* The ffprobe query of getAudioBitrateInfo: ok is "exit code 0, stdout not
\* empty and JSON.parse did not throw".
AudioQueries ==
    { [ok |-> FALSE, streams |-> << >>] }
        \cup { [ok |-> TRUE, streams |-> l] : l \in StreamLists }

NoQuery == [ok |-> FALSE, streams |-> << >>]

\* stdout and stderr of "ffmpeg -hide_banner -encoders", as encoder names.
EncoderLists ==
    { [stdout |-> <<"libx264", "libsvtav1", "av1_nvenc">>, stderr |-> << >>],
      [stdout |-> <<"libx264", "libsvtav1">>, stderr |-> << >>],
      [stdout |-> <<"libx264", "hevc_nvenc">>, stderr |-> << >>],
      [stdout |-> <<"AV1_NVENC">>, stderr |-> << >>],
      [stdout |-> << >>, stderr |-> <<"libsvtav1", "av1_nvenc">>],
      [stdout |-> << >>, stderr |-> << >>] }

\* Exit code of the encode and the kind of text it left on stderr.
MuxFailure == "Could not write header for output file"
OtherFailure == "Unknown encoder"
EncodeOutcomes ==
    { [code |-> 0, text |-> ""],
      [code |-> 1, text |-> MuxFailure],
      [code |-> 1, text |-> OtherFailure] }

ThumbStates == {"absent", "empty", "nonempty"}

-----------------------------------------------------------------------------
(* Bitrate planning, main lines 727-742 *)

\* Math.round((inputSizeBytes * 8) / totalDurationSeconds / 1000), guarded by
\* totalDurationSeconds > 0; d is the duration in 1/100 s.
OrigTotalBitrateKbps(size, d) ==
    IF d > 0
    THEN MathRoundDiv(size * 8, (d * 1000) \div CentisPerSecond)
    ELSE 0

\* Math.round(origTotalBitrateKbps * 0.5)
TargetTotalBitrateKbps(orig) == MathRoundDiv(orig, 2)

\* The subtraction without the floor of line 741.
TargetVideoNoFloor(orig, audio) ==
    IF orig > 0 THEN TargetTotalBitrateKbps(orig) - audio ELSE 0

\* The floor applied whether or not an original bitrate is known.
TargetVideoFloorAlways(orig, audio) ==
    Max(MinVideoKbps, TargetTotalBitrateKbps(orig) - audio)

\* Math.floor in place of Math.round at line 739.
TargetVideoTruncatedHalf(orig, audio) ==
    IF orig > 0
    THEN Max(MinVideoKbps, (orig \div 2) - audio)
    ELSE 0

\* lines 737-742
TargetVideoBitrateKbps(orig, audio) ==
    IF orig > 0
    THEN Max(MinVideoKbps, TargetTotalBitrateKbps(orig) - audio)
    ELSE 0

-----------------------------------------------------------------------------
(* getAudioBitrateInfo, lines 519-553 *)

RECURSIVE SumStreamKbps(_)
SumStreamKbps(streams) ==
    IF streams = << >> THEN 0
    ELSE (IF Head(streams).has_bit_rate
          THEN MathRoundDiv(Head(streams).bit_rate, 1000)
          ELSE 0) + SumStreamKbps(Tail(streams))

\* Without the 192 kbps assumption of lines 540-543.
AudioBitrateInfoNoDefault(query, text) ==
    IF query.ok /\ Len(query.streams) > 0
    THEN [totalKbps |-> SumStreamKbps(query.streams),
          streamCount |-> Len(query.streams)]
    ELSE LET audioCount == AudioMarkerCount(text)
         IN  [totalKbps |-> IF audioCount > 0
                            THEN DefaultAudioKbps * audioCount ELSE 0,
              streamCount |-> audioCount]

\* Without the fallback of lines 549-552: a failed query gives no audio.
AudioBitrateInfoNoFallback(query, text) ==
    IF query.ok /\ Len(query.streams) > 0
    THEN LET kbps == SumStreamKbps(query.streams)
             cnt == Len(query.streams)
         IN  [totalKbps |-> IF kbps = 0 /\ cnt > 0
                            THEN DefaultAudioKbps * cnt ELSE kbps,
              streamCount |-> cnt]
    ELSE [totalKbps |-> 0, streamCount |-> 0]

AudioBitrateInfo(query, text) ==
    IF query.ok /\ Len(query.streams) > 0
    THEN LET kbps == SumStreamKbps(query.streams)
             cnt == Len(query.streams)
         IN  [totalKbps |-> IF kbps = 0 /\ cnt > 0
                            THEN DefaultAudioKbps * cnt ELSE kbps,
              streamCount |-> cnt]
    ELSE LET audioCount == AudioMarkerCount(text)
         IN  [totalKbps |-> IF audioCount > 0
                            THEN DefaultAudioKbps * audioCount ELSE 0,
              streamCount |-> audioCount]

-----------------------------------------------------------------------------
(* Encoder selection, detectNvenc lines 555-559 and main lines 755-775 *)

\* String.prototype.toLowerCase on an encoder name.
ToLowerCase(name) ==
    CASE name = "AV1_NVENC" -> "av1_nvenc"
      [] name = "LIBSVTAV1" -> "libsvtav1"
      [] OTHER -> name

\* The search without toLowerCase.
DetectNvencCaseSensitive(list) ==
    LET text == list.stdout \o list.stderr
    IN  \E i \in 1..Len(text) : text[i] = "av1_nvenc"

\* (r.stdout + "\n" + r.stderr).toLowerCase().includes("av1_nvenc")
DetectNvenc(list) ==
    LET text == list.stdout \o list.stderr
    IN  \E i \in 1..Len(text) : ToLowerCase(text[i]) = "av1_nvenc"

\* `${n}k`
Kbps(n) == ToString(n) \o "k"

\* The option strings of lines 758-774, as tokenizeOptions splits them.
NvencQualityOptions ==
    <<"-rc", "vbr", "-cq", "28", "-b:v", "0", "-preset", "p6", "-tune", "hq",
      "-spatial-aq", "1", "-aq-strength", "8">>

SvtQualityOptions ==
    <<"-crf", "30", "-b:v", "0", "-preset", "8", "-tune", "0">>

RateOptions(t) ==
    <<"-b:v:0", Kbps(t), "-maxrate:v:0", Kbps(MathRoundDiv(t * 3, 2)),
      "-bufsize:v:0", Kbps(t * 3)>>

\* The software encoder of the earlier revision (line 328).
VideoEncoderAom(nvenc) == IF nvenc THEN "av1_nvenc" ELSE "libaom-av1"

VideoEncoder(nvenc) == IF nvenc THEN "av1_nvenc" ELSE "libsvtav1"

\* The rewrite to an explicit bitrate done for the hardware encoder only.
VideoEncoderOptionsNvencOnly(nvenc, t) ==
    IF nvenc
    THEN IF t > 0
         THEN <<"-rc", "vbr">> \o RateOptions(t)
                  \o <<"-preset", "p6", "-tune", "hq", "-spatial-aq", "1",
                       "-aq-strength", "8">>
         ELSE NvencQualityOptions
    ELSE SvtQualityOptions

\* The rewrite to an explicit bitrate done whatever the target is.
VideoEncoderOptionsAlwaysRate(nvenc, t) ==
    IF nvenc
    THEN <<"-rc", "vbr">> \o RateOptions(t)
             \o <<"-preset", "p6", "-tune", "hq", "-spatial-aq", "1",
                  "-aq-strength", "8">>
    ELSE RateOptions(t) \o <<"-preset", "8", "-tune", "0">>

VideoEncoderOptions(nvenc, t) ==
    IF t > 0
    THEN IF nvenc
         THEN <<"-rc", "vbr">> \o RateOptions(t)
                  \o <<"-preset", "p6", "-tune", "hq", "-spatial-aq", "1",
                       "-aq-strength", "8">>
         ELSE RateOptions(t) \o <<"-preset", "8", "-tune", "0">>
    ELSE IF nvenc THEN NvencQualityOptions ELSE SvtQualityOptions

\* ffArgs, lines 779-796
FfArgs(encoder, options) ==
    <<"-hide_banner", "-y", "-i", "inputPath", "-i", "tempThumb",
      "-map", "0", "-map", "1", "-c:v:0", encoder>>
        \o options
        \o <<"-c:a", "copy", "-c:s", "copy", "-c:v:1", "copy",
             "-disposition:v:1", "attached_pic", "-movflags", "+faststart",
             "-pix_fmt", "yuv420p", "-progress", "pipe:1", "outputPath">>

-----------------------------------------------------------------------------
(* The run of main(), lines 696-828 *)

\* No call of encodeWithProgress has been made.
EncodeIdle ==
    /\ encPc = "idle"
    /\ progressBar = FALSE
    /\ lastPercent = 0
    /\ outTimeMs = -1
    /\ percent = -1
    /\ updates = << >>
    /\ stdoutBuf = << >>
    /\ stderrBuf = << >>
    /\ lastLines = << >>
    /\ childCode = -1
    /\ errorCode = -1
    /\ settled = 0

\* Events of the log of subprocesses.
Spawn(proc) == [proc |-> proc, ev |-> "spawn"]
Close(proc) == [proc |-> proc, ev |-> "close"]

\* A runCommand that is not awaited: main goes on while the child runs.
RanNotAwaited(proc) == <<Spawn(proc)>>

\* await runCommand(...): the child is spawned and main resumes when it has
\* closed (line 438).
Ran(proc) == <<Spawn(proc), Close(proc)>>

\* No call of runCommand has been made.
RunIdle ==
    /\ rcPc = "idle"
    /\ rcChildren = 0
    /\ rcEmitted = << >>
    /\ rcStdout = << >>
    /\ rcStderr = << >>
    /\ rcResult = << >>
    /\ rcExit = -1

\* No call of promptForPath has been made.
PromptIdle ==
    /\ promptPc = "idle"
    /\ answer = << >>
    /\ promptReturn = << >>

Init ==
    /\ pc = "start"
    /\ inputExists \in BOOLEAN
    /\ assetEmbedded \in BOOLEAN
    /\ ffmpegSpawnPathCached = "ffmpeg"
    /\ ffprobeSpawnPathCached = "ffprobe"
    /\ tempBinaries = 0
    /\ probeText = << >>
    /\ totalDurationSeconds = 0
    /\ mapIdx = ""
    /\ thumbFile = "absent"
    /\ inputSizeBytes = 0
    /\ origTotalBitrateKbps = 0
    /\ audioQuery = NoQuery
    /\ audioTotalBitrateKbps = 0
    /\ audioStreamCount = 0
    /\ targetVideoBitrateKbps = 0
    /\ encoderList = [stdout |-> << >>, stderr |-> << >>]
    /\ usingNvenc = FALSE
    /\ videoEncoder = ""
    /\ videoEncoderOptions = << >>
    /\ ffArgs = << >>
    /\ launches = << >>
    /\ encodeResults = << >>
    /\ exitCode = 0
    /\ rmCalls = 0
    /\ errorMessage = ""
    /\ thumbRuns = << >>
    /\ spawned = 0
    /\ procLog = << >>
    /\ EncodeIdle
    /\ RunIdle
    /\ PromptIdle

\* The catch block of lines 824-827: the message is written, the exit code
\* is set, main returns.  Nothing else is touched.
OuterCatch(message) ==
    /\ pc' = "done"
    /\ exitCode' = 1
    /\ errorMessage' = message

\* An existence check whose failure is not propagated.
EnsureFileExistsIgnored ==
    /\ pc = "start"
    /\ pc' = "probe"
    /\ UNCHANGED <<exitCode, errorMessage>>
    /\ UNCHANGED <<inputExists, assetEmbedded, ffmpegSpawnPathCached,
                   ffprobeSpawnPathCached, tempBinaries, probeText,
                   totalDurationSeconds, mapIdx, thumbFile, inputSizeBytes,
                   origTotalBitrateKbps, audioQuery, audioTotalBitrateKbps,
                   audioStreamCount, targetVideoBitrateKbps, encoderList,
                   usingNvenc, videoEncoder, videoEncoderOptions, ffArgs,
                   launches, encodeResults, rmCalls, thumbRuns, spawned, procLog>>
    /\ UNCHANGED <<progressVars, runVars, promptVars>>

\* ensureFileExists, lines 461-467, called at line 700.
EnsureFileExists ==
    /\ pc = "start"
    /\ IF inputExists
       THEN /\ pc' = "probe"
            /\ UNCHANGED <<exitCode, errorMessage>>
       ELSE OuterCatch("Error: File not found")
    /\ UNCHANGED <<inputExists, assetEmbedded, ffmpegSpawnPathCached,
                   ffprobeSpawnPathCached, tempBinaries, probeText,
                   totalDurationSeconds, mapIdx, thumbFile, inputSizeBytes,
                   origTotalBitrateKbps, audioQuery, audioTotalBitrateKbps,
                   audioStreamCount, targetVideoBitrateKbps, encoderList,
                   usingNvenc, videoEncoder, videoEncoderOptions, ffArgs,
                   launches, encodeResults, rmCalls, thumbRuns, spawned, procLog>>
    /\ UNCHANGED <<progressVars, runVars, promptVars>>

\* probeWithFfmpeg (lines 469-473) with the first getFfmpegPath (lines
\* 674-683), then parseDurationSeconds (line 710).  The embedded binary is
\* extracted on the first call only; a failed extraction throws (line 670).
ProbeWithFfmpeg ==
    /\ pc = "probe"
    /\ \/ /\ assetEmbedded
          /\ ffmpegSpawnPathCached = "ffmpeg"
          /\ OuterCatch("Failed to prepare embedded binary")
          /\ UNCHANGED <<ffmpegSpawnPathCached, tempBinaries, probeText,
                         totalDurationSeconds, spawned, procLog>>
       \/ /\ IF assetEmbedded /\ ffmpegSpawnPathCached = "ffmpeg"
             THEN /\ ffmpegSpawnPathCached' = "tmp/ffmpeg"
                  /\ tempBinaries' = tempBinaries + 1
             ELSE UNCHANGED <<ffmpegSpawnPathCached, tempBinaries>>
          /\ \E text \in ProbeTexts :
                /\ probeText' = text
                /\ totalDurationSeconds' = parseDurationSeconds(text)
          /\ spawned' = spawned + 1
          /\ procLog' = procLog \o Ran("probe")
          /\ pc' = "thumbnail"
          /\ UNCHANGED <<exitCode, errorMessage>>
    /\ UNCHANGED <<inputExists, assetEmbedded, ffprobeSpawnPathCached, mapIdx,
                   thumbFile, inputSizeBytes, origTotalBitrateKbps, audioQuery,
                   audioTotalBitrateKbps, audioStreamCount,
                   targetVideoBitrateKbps, encoderList, usingNvenc,
                   videoEncoder, videoEncoderOptions, ffArgs, launches,
                   encodeResults, rmCalls, thumbRuns>>
    /\ UNCHANGED <<progressVars, runVars, promptVars>>

\* An extraction whose failure is not followed by the generation of a still
\* frame.
ExtractThumbnailNoFallback ==
    /\ pc = "thumbnail"
    /\ findAttachedPicMapIndex(probeText) # ""
    /\ mapIdx' = findAttachedPicMapIndex(probeText)
    /\ spawned' = spawned + 1
    /\ procLog' = procLog \o Ran("extract")
    /\ \E code \in {0, 1}, file \in ThumbStates :
          /\ thumbFile' = file
          /\ thumbRuns' = Append(thumbRuns, [kind |-> "extract", code |-> code])
          /\ pc' = "verify"
    /\ UNCHANGED <<inputExists, assetEmbedded, ffmpegSpawnPathCached,
                   ffprobeSpawnPathCached, tempBinaries, probeText,
                   totalDurationSeconds, inputSizeBytes, origTotalBitrateKbps,
                   audioQuery, audioTotalBitrateKbps, audioStreamCount,
                   targetVideoBitrateKbps, encoderList, usingNvenc,
                   videoEncoder, videoEncoderOptions, ffArgs, launches,
                   encodeResults, exitCode, rmCalls, errorMessage>>
    /\ UNCHANGED <<progressVars, runVars, promptVars>>

\* extractOrGenerateThumbnail, lines 503-511: an attached picture was found
\* and its stream is copied to tempThumb.  ffmpeg -y may leave the file in
\* any state whatever its exit code.
ExtractThumbnail ==
    /\ pc = "thumbnail"
    /\ findAttachedPicMapIndex(probeText) # ""
    /\ mapIdx' = findAttachedPicMapIndex(probeText)
    /\ spawned' = spawned + 1
    /\ procLog' = procLog \o Ran("extract")
    /\ \E code \in {0, 1}, file \in ThumbStates :
          /\ thumbFile' = file
          /\ thumbRuns' = Append(thumbRuns, [kind |-> "extract", code |-> code])
          /\ pc' = IF code # 0 THEN "generate" ELSE "verify"
    /\ UNCHANGED <<inputExists, assetEmbedded, ffmpegSpawnPathCached,
                   ffprobeSpawnPathCached, tempBinaries, probeText,
                   totalDurationSeconds, inputSizeBytes, origTotalBitrateKbps,
                   audioQuery, audioTotalBitrateKbps, audioStreamCount,
                   targetVideoBitrateKbps, encoderList, usingNvenc,
                   videoEncoder, videoEncoderOptions, ffArgs, launches,
                   encodeResults, exitCode, rmCalls, errorMessage>>
    /\ UNCHANGED <<progressVars, runVars, promptVars>>

\* extractOrGenerateThumbnail, lines 509-510 and 512-516: a still frame at
\* 00:00:01, after a failed extraction or when no attached picture was found.
GenerateThumbnail ==
    /\ \/ pc = "generate"
       \/ pc = "thumbnail" /\ findAttachedPicMapIndex(probeText) = ""
    /\ spawned' = spawned + 1
    /\ procLog' = procLog \o Ran("generate")
    /\ \E code \in {0, 1}, file \in ThumbStates :
          /\ thumbFile' = file
          /\ thumbRuns' = Append(thumbRuns, [kind |-> "generate", code |-> code])
          /\ IF code # 0
             THEN OuterCatch(IF pc = "generate"
                             THEN "Failed to extract or generate thumbnail"
                             ELSE "Failed to generate thumbnail")
             ELSE /\ pc' = "verify"
                  /\ UNCHANGED <<exitCode, errorMessage>>
    /\ UNCHANGED <<inputExists, assetEmbedded, ffmpegSpawnPathCached,
                   ffprobeSpawnPathCached, tempBinaries, probeText,
                   totalDurationSeconds, mapIdx, inputSizeBytes,
                   origTotalBitrateKbps, audioQuery, audioTotalBitrateKbps,
                   audioStreamCount, targetVideoBitrateKbps, encoderList,
                   usingNvenc, videoEncoder, videoEncoderOptions, ffArgs,
                   launches, encodeResults, rmCalls>>
    /\ UNCHANGED <<progressVars, runVars, promptVars>>

\* A verification that only asks for the file to exist.
VerifyThumbnailExistsOnly ==
    /\ pc = "verify"
    /\ IF thumbFile # "absent"
       THEN /\ pc' = "stat"
            /\ UNCHANGED <<exitCode, errorMessage>>
       ELSE OuterCatch("Thumbnail file is missing or empty. Cannot proceed.")
    /\ UNCHANGED <<inputExists, assetEmbedded, ffmpegSpawnPathCached,
                   ffprobeSpawnPathCached, tempBinaries, probeText,
                   totalDurationSeconds, mapIdx, thumbFile, inputSizeBytes,
                   origTotalBitrateKbps, audioQuery, audioTotalBitrateKbps,
                   audioStreamCount, targetVideoBitrateKbps, encoderList,
                   usingNvenc, videoEncoder, videoEncoderOptions, ffArgs,
                   launches, encodeResults, rmCalls, thumbRuns, spawned, procLog>>
    /\ UNCHANGED <<progressVars, runVars, promptVars>>

\* The verification of lines 720-725.
VerifyThumbnail ==
    /\ pc = "verify"
    /\ IF thumbFile = "nonempty"
       THEN /\ pc' = "stat"
            /\ UNCHANGED <<exitCode, errorMessage>>
       ELSE OuterCatch("Thumbnail file is missing or empty. Cannot proceed.")
    /\ UNCHANGED <<inputExists, assetEmbedded, ffmpegSpawnPathCached,
                   ffprobeSpawnPathCached, tempBinaries, probeText,
                   totalDurationSeconds, mapIdx, thumbFile, inputSizeBytes,
                   origTotalBitrateKbps, audioQuery, audioTotalBitrateKbps,
                   audioStreamCount, targetVideoBitrateKbps, encoderList,
                   usingNvenc, videoEncoder, videoEncoderOptions, ffArgs,
                   launches, encodeResults, rmCalls, thumbRuns, spawned, procLog>>
    /\ UNCHANGED <<progressVars, runVars, promptVars>>

\* stat(inputPath) and the original total bitrate, lines 728-733.  stat
\* throws when the input has disappeared since line 700.
StatInput ==
    /\ pc = "stat"
    /\ \/ /\ OuterCatch("ENOENT: no such file or directory, stat")
          /\ UNCHANGED <<inputSizeBytes, origTotalBitrateKbps>>
       \/ /\ \E size \in Sizes :
                /\ inputSizeBytes' = size
                /\ origTotalBitrateKbps' =
                       OrigTotalBitrateKbps(size, totalDurationSeconds)
          /\ pc' = "audio"
          /\ UNCHANGED <<exitCode, errorMessage>>
    /\ UNCHANGED <<inputExists, assetEmbedded, ffmpegSpawnPathCached,
                   ffprobeSpawnPathCached, tempBinaries, probeText,
                   totalDurationSeconds, mapIdx, thumbFile, audioQuery,
                   audioTotalBitrateKbps, audioStreamCount,
                   targetVideoBitrateKbps, encoderList, usingNvenc,
                   videoEncoder, videoEncoderOptions, ffArgs, launches,
                   encodeResults, rmCalls, thumbRuns, spawned, procLog>>
    /\ UNCHANGED <<progressVars, runVars, promptVars>>

\* getAudioBitrateInfo (lines 519-553) with the first getFfprobePath (lines
\* 685-694), then the target video bitrate of lines 737-742.  A failed
\* extraction of ffprobe throws inside the try of line 520 and is swallowed
\* at line 547, as is every failure of the query itself.
GetAudioBitrateInfo ==
    /\ pc = "audio"
    /\ \/ /\ assetEmbedded
          /\ ffprobeSpawnPathCached = "ffprobe"
          /\ audioQuery' = NoQuery
          /\ UNCHANGED <<ffprobeSpawnPathCached, tempBinaries, spawned, procLog>>
       \/ /\ IF assetEmbedded /\ ffprobeSpawnPathCached = "ffprobe"
             THEN /\ ffprobeSpawnPathCached' = "tmp/ffprobe"
                  /\ tempBinaries' = tempBinaries + 1
             ELSE UNCHANGED <<ffprobeSpawnPathCached, tempBinaries>>
          /\ audioQuery' \in AudioQueries
          /\ spawned' = spawned + 1
          /\ procLog' = procLog \o Ran("audio")
    /\ LET info == AudioBitrateInfo(audioQuery', probeText)
       IN  /\ audioTotalBitrateKbps' = info.totalKbps
           /\ audioStreamCount' = info.streamCount
           /\ targetVideoBitrateKbps' =
                  TargetVideoBitrateKbps(origTotalBitrateKbps, info.totalKbps)
    /\ pc' = "detect"
    /\ UNCHANGED <<inputExists, assetEmbedded, ffmpegSpawnPathCached,
                   probeText, totalDurationSeconds, mapIdx, thumbFile,
                   inputSizeBytes, origTotalBitrateKbps, encoderList,
                   usingNvenc, videoEncoder, videoEncoderOptions, ffArgs,
                   launches, encodeResults, exitCode, rmCalls, errorMessage,
                   thumbRuns>>
    /\ UNCHANGED <<progressVars, runVars, promptVars>>

\* detectNvenc and the choice of the encoder, its options and the argument
\* list, lines 755-796.  getFfmpegPath (line 778) returns the cached path.
ChooseEncoder ==
    /\ pc = "detect"
    /\ \E list \in EncoderLists :
          LET nvenc == DetectNvenc(list)
              encoder == VideoEncoder(nvenc)
              options == VideoEncoderOptions(nvenc, targetVideoBitrateKbps)
          IN  /\ encoderList' = list
              /\ usingNvenc' = nvenc
              /\ videoEncoder' = encoder
              /\ videoEncoderOptions' = options
              /\ ffArgs' = FfArgs(encoder, options)
    /\ spawned' = spawned + 1
    /\ procLog' = procLog \o Ran("encoders")
    /\ pc' = "encode"
    /\ UNCHANGED <<inputExists, assetEmbedded, ffmpegSpawnPathCached,
                   ffprobeSpawnPathCached, tempBinaries, probeText,
                   totalDurationSeconds, mapIdx, thumbFile, inputSizeBytes,
                   origTotalBitrateKbps, audioQuery, audioTotalBitrateKbps,
                   audioStreamCount, targetVideoBitrateKbps, launches,
                   encodeResults, exitCode, rmCalls, errorMessage, thumbRuns>>
    /\ UNCHANGED <<progressVars, runVars, promptVars>>

\* encodeWithProgress spawns the engine, line 568, called at line 802.
EncodeSpawn ==
    /\ pc = "encode"
    /\ launches' = Append(launches, ffArgs)
    /\ spawned' = spawned + 1
    /\ procLog' = Append(procLog, Spawn("encode"))
    /\ pc' = "encoding"
    /\ UNCHANGED <<inputExists, assetEmbedded, ffmpegSpawnPathCached,
                   ffprobeSpawnPathCached, tempBinaries, probeText,
                   totalDurationSeconds, mapIdx, thumbFile, inputSizeBytes,
                   origTotalBitrateKbps, audioQuery, audioTotalBitrateKbps,
                   audioStreamCount, targetVideoBitrateKbps, encoderList,
                   usingNvenc, videoEncoder, videoEncoderOptions, ffArgs,
                   encodeResults, exitCode, rmCalls, errorMessage, thumbRuns>>
    /\ UNCHANGED <<progressVars, runVars, promptVars>>

\* A close handler that starts the encode again, once, without the thumbnail
\* when the failure text is a muxing one.
EncodeCloseWithRetry ==
    /\ pc = "encoding"
    /\ procLog' = Append(procLog, Close("encode"))
    /\ \E r \in EncodeOutcomes :
          /\ encodeResults' = Append(encodeResults, r)
          /\ IF r.code # 0 /\ r.text = MuxFailure /\ Len(launches) < 2
             THEN /\ pc' = "encode"
                  /\ UNCHANGED <<exitCode, errorMessage>>
             ELSE /\ pc' = "cleanup"
                  /\ exitCode' = IF r.code = 0 THEN exitCode ELSE 1
                  /\ errorMessage' = IF r.code = 0 THEN errorMessage
                                     ELSE "FFmpeg failed with exit code 1."
    /\ UNCHANGED <<inputExists, assetEmbedded, ffmpegSpawnPathCached,
                   ffprobeSpawnPathCached, tempBinaries, probeText,
                   totalDurationSeconds, mapIdx, thumbFile, inputSizeBytes,
                   origTotalBitrateKbps, audioQuery, audioTotalBitrateKbps,
                   audioStreamCount, targetVideoBitrateKbps, encoderList,
                   usingNvenc, videoEncoder, videoEncoderOptions, ffArgs,
                   launches, rmCalls, thumbRuns, spawned>>
    /\ UNCHANGED <<progressVars, runVars, promptVars>>

\* A catch block that reports the failure and leaves the exit code alone.
EncodeCloseKeepsExitCode ==
    /\ pc = "encoding"
    /\ procLog' = Append(procLog, Close("encode"))
    /\ \E r \in EncodeOutcomes :
          /\ encodeResults' = Append(encodeResults, r)
          /\ errorMessage' = IF r.code = 0 THEN errorMessage
                             ELSE "FFmpeg failed with exit code 1."
    /\ pc' = "cleanup"
    /\ UNCHANGED <<inputExists, assetEmbedded, ffmpegSpawnPathCached,
                   ffprobeSpawnPathCached, tempBinaries, probeText,
                   totalDurationSeconds, mapIdx, thumbFile, inputSizeBytes,
                   origTotalBitrateKbps, audioQuery, audioTotalBitrateKbps,
                   audioStreamCount, targetVideoBitrateKbps, encoderList,
                   usingNvenc, videoEncoder, videoEncoderOptions, ffArgs,
                   launches, exitCode, rmCalls, thumbRuns, spawned>>
    /\ UNCHANGED <<progressVars, runVars, promptVars>>

\* A close handler that starts the encode again after any failure, up to
\* three launches.
EncodeCloseRetryAlways ==
    /\ pc = "encoding"
    /\ procLog' = Append(procLog, Close("encode"))
    /\ \E r \in EncodeOutcomes :
          /\ encodeResults' = Append(encodeResults, r)
          /\ IF r.code # 0 /\ Len(launches) < 3
             THEN /\ pc' = "encode"
                  /\ UNCHANGED <<exitCode, errorMessage>>
             ELSE /\ pc' = "cleanup"
                  /\ exitCode' = IF r.code = 0 THEN exitCode ELSE 1
                  /\ errorMessage' = IF r.code = 0 THEN errorMessage
                                     ELSE "FFmpeg failed with exit code 1."
    /\ UNCHANGED <<inputExists, assetEmbedded, ffmpegSpawnPathCached,
                   ffprobeSpawnPathCached, tempBinaries, probeText,
                   totalDurationSeconds, mapIdx, thumbFile, inputSizeBytes,
                   origTotalBitrateKbps, audioQuery, audioTotalBitrateKbps,
                   audioStreamCount, targetVideoBitrateKbps, encoderList,
                   usingNvenc, videoEncoder, videoEncoderOptions, ffArgs,
                   launches, rmCalls, thumbRuns, spawned>>
    /\ UNCHANGED <<progressVars, runVars, promptVars>>

\* The engine closes (lines 632-644): encodeWithProgress resolves on exit
\* code 0 and rejects otherwise; main's catch of lines 816-819 reports the
\* rejection and sets the exit code.  Either way the finally block is next.
EncodeClose ==
    /\ pc = "encoding"
    /\ procLog' = Append(procLog, Close("encode"))
    /\ \E r \in EncodeOutcomes :
          /\ encodeResults' = Append(encodeResults, r)
          /\ IF r.code = 0
             THEN UNCHANGED <<exitCode, errorMessage>>
             ELSE /\ exitCode' = 1
                  /\ errorMessage' = "FFmpeg failed with exit code 1."
    /\ pc' = "cleanup"
    /\ UNCHANGED <<inputExists, assetEmbedded, ffmpegSpawnPathCached,
                   ffprobeSpawnPathCached, tempBinaries, probeText,
                   totalDurationSeconds, mapIdx, thumbFile, inputSizeBytes,
                   origTotalBitrateKbps, audioQuery, audioTotalBitrateKbps,
                   audioStreamCount, targetVideoBitrateKbps, encoderList,
                   usingNvenc, videoEncoder, videoEncoderOptions, ffArgs,
                   launches, rmCalls, thumbRuns, spawned>>
    /\ UNCHANGED <<progressVars, runVars, promptVars>>

\* The finally block of lines 820-823: rm(tempThumb, { force: true }) with
\* its failure swallowed.
Cleanup ==
    /\ pc = "cleanup"
    /\ rmCalls' = rmCalls + 1
    /\ \E removed \in BOOLEAN :
          thumbFile' = IF removed THEN "absent" ELSE thumbFile
    /\ pc' = "done"
    /\ UNCHANGED <<inputExists, assetEmbedded, ffmpegSpawnPathCached,
                   ffprobeSpawnPathCached, tempBinaries, probeText,
                   totalDurationSeconds, mapIdx, inputSizeBytes,
                   origTotalBitrateKbps, audioQuery, audioTotalBitrateKbps,
                   audioStreamCount, targetVideoBitrateKbps, encoderList,
                   usingNvenc, videoEncoder, videoEncoderOptions, ffArgs,
                   launches, encodeResults, exitCode, errorMessage,
                   thumbRuns, spawned, procLog>>
    /\ UNCHANGED <<progressVars, runVars, promptVars>>

Next ==
    \/ EnsureFileExists
    \/ ProbeWithFfmpeg
    \/ ExtractThumbnail
    \/ GenerateThumbnail
    \/ VerifyThumbnail
    \/ StatInput
    \/ GetAudioBitrateInfo
    \/ ChooseEncoder
    \/ EncodeSpawn
    \/ EncodeClose
    \/ Cleanup

Spec == Init /\ [][Next]_vars

-----------------------------------------------------------------------------
(* encodeWithProgress, lines 566-646, on its own: the call, the data        *)
(* events of the child's stdout and stderr, and the close event.            *)
(*                                                                          *)
(* Text.  A line is a sequence of tokens; the tokens are the ten digits,    *)
(* "-", and words.  The key of a progress line is the two tokens            *)
(* "out_time_" "ms=", so that a chunk boundary may fall inside the key,     *)
(* inside the number or between lines.  A chunk is the sequence of lines    *)
(* that split(/\r?\n/) makes of it: a chunk that ends with a newline ends   *)
(* with an empty line.                                                      *)
(*                                                                          *)
(* Percent.  With D = totalDurationSeconds / 100 seconds, the percent of    *)
(* line 595 is (ms / 1000000) / D * 100 = ms / PercentDen: a percent is     *)
(* held as its numerator over PercentDen(totalDurationSeconds).             *)

Digit == {"0", "1", "2", "3", "4", "5", "6", "7", "8", "9"}

DigitValue(c) ==
    CASE c = "0" -> 0 [] c = "1" -> 1 [] c = "2" -> 2 [] c = "3" -> 3
      [] c = "4" -> 4 [] c = "5" -> 5 [] c = "6" -> 6 [] c = "7" -> 7
      [] c = "8" -> 8 [] c = "9" -> 9

\* The decimal numeral the engine prints for n >= 0.
RECURSIVE Decimal(_)
Decimal(n) ==
    LET d == CHOOSE c \in Digit : DigitValue(c) = n % 10
    IN  IF n < 10 THEN <<d>> ELSE Append(Decimal(n \div 10), d)

\* Number(m[1]), line 593, for a sequence of digits.
RECURSIVE Number(_)
Number(ds) ==
    IF ds = << >> THEN 0
    ELSE Number(SubSeq(ds, 1, Len(ds) - 1)) * 10 + DigitValue(ds[Len(ds)])

OutTimeLine(ds) == <<"out_time_", "ms=">> \o ds

\* m[1] of line.match(/^out_time_ms=(\d+)/), line 591: the longest run of
\* digits after the key; << >> when the line does not match.
MatchOutTimeMs(line) ==
    IF /\ Len(line) >= 3
       /\ line[1] = "out_time_"
       /\ line[2] = "ms="
       /\ line[3] \in Digit
    THEN LET stop == { i \in 3..Len(line) : line[i] \notin Digit }
             last == IF stop = {} THEN Len(line)
                     ELSE (CHOOSE i \in stop : \A j \in stop : i <= j) - 1
         IN  SubSeq(line, 3, last)
    ELSE << >>

Min(a, b) == IF a <= b THEN a ELSE b

PercentDen(d) == IF d > 0 THEN CentisPerSecond * d ELSE 1

\* 100 percent
FullPercent(d) == 100 * PercentDen(d)

\* A percent that is not capped at 100.
PercentOfNoCap(ms, d) == Max(0, ms)

\* Math.max(0, Math.min(100, (seconds / totalDurationSeconds) * 100))
PercentOf(ms, d) == Max(0, Min(FullPercent(d), ms))

\* An onProgressLine that displays every percent it computes.
onProgressLineAlwaysUpdate(st, line, d) ==
    IF d > 0 /\ MatchOutTimeMs(line) # << >>
    THEN LET ms == Number(MatchOutTimeMs(line))
             p == PercentOf(ms, d)
         IN  [lastPercent |-> p, outTimeMs |-> ms, percent |-> p,
              updates |-> Append(st.updates, p)]
    ELSE st

\* An onProgressLine without the test of the duration of line 590.
onProgressLineNoDurationGuard(st, line, d) ==
    IF MatchOutTimeMs(line) # << >>
    THEN LET ms == Number(MatchOutTimeMs(line))
             p == PercentOf(ms, d)
         IN  IF 2 * (p - st.lastPercent) >= PercentDen(d) \/ p = FullPercent(d)
             THEN [lastPercent |-> p, outTimeMs |-> ms, percent |-> p,
                   updates |-> Append(st.updates, p)]
             ELSE [st EXCEPT !.outTimeMs = ms, !.percent = p]
    ELSE st

\* An onProgressLine that displays a percent 0.5 away from the last one on
\* either side.
onProgressLineEitherSide(st, line, d) ==
    IF d > 0 /\ MatchOutTimeMs(line) # << >>
    THEN LET ms == Number(MatchOutTimeMs(line))
             p == PercentOf(ms, d)
         IN  IF \/ 2 * (p - st.lastPercent) >= PercentDen(d)
                \/ 2 * (st.lastPercent - p) >= PercentDen(d)
                \/ p = FullPercent(d)
             THEN [lastPercent |-> p, outTimeMs |-> ms, percent |-> p,
                   updates |-> Append(st.updates, p)]
             ELSE [st EXCEPT !.outTimeMs = ms, !.percent = p]
    ELSE st

\* onProgressLine, lines 588-615, on the state st of the closure.  The
\* speed and the ETA passed along with the percent depend on the clock and
\* are left out.
onProgressLine(st, line, d) ==
    IF d > 0 /\ MatchOutTimeMs(line) # << >>
    THEN LET ms == Number(MatchOutTimeMs(line))
             p == PercentOf(ms, d)
         IN  IF 2 * (p - st.lastPercent) >= PercentDen(d) \/ p = FullPercent(d)
             THEN [lastPercent |-> p, outTimeMs |-> ms, percent |-> p,
                   updates |-> Append(st.updates, p)]
             ELSE [st EXCEPT !.outTimeMs = ms, !.percent = p]
    ELSE st

\* str.split(/\r?\n/).forEach(onProgressLine), line 624
RECURSIVE ForEachLine(_, _, _)
ForEachLine(st, lines, d) ==
    IF lines = << >> THEN st
    ELSE ForEachLine(onProgressLine(st, Head(lines), d), Tail(lines), d)

\* Exit codes of a child process (lines 438 and 632).
ExitCodes == {0, 1, 255}

\* Chunks the engine writes on stdout with -progress pipe:1.
StdoutChunks ==
    { << OutTimeLine(Decimal(0)), <<"progress=continue">>, << >> >>,
      << OutTimeLine(Decimal(500000)), << >> >>,
      << OutTimeLine(Decimal(60000000)), << >> >>,
      << OutTimeLine(Decimal(60300000)), << >> >>,
      << OutTimeLine(Decimal(120000000)), <<"progress=end">>, << >> >>,
      << OutTimeLine(Decimal(130000000)), << >> >>,
      \* a negative time and another key: no match
      << <<"out_time_", "ms=", "-", "1">>, << >> >>,
      << <<"out_time_", "us=">> \o Decimal(60000000), << >> >>,
      \* "out_time_ms=60000000\n" delivered in two chunks
      << OutTimeLine(<<"6", "0", "0">>) >>,
      << <<"0", "0", "0", "0", "0">>, << >> >> }

\* Chunks the engine writes on stderr: one line, and one line more than the
\* rejection quotes.
StderrChunks ==
    { << <<"Unknown encoder">>, << >> >>,
      [ i \in 1..(LastLinesKept + 2) |->
            IF i <= LastLinesKept + 1 THEN <<"frame=">> \o Decimal(i)
            ELSE << >> ] }

\* totalDurationSeconds passed to encodeWithProgress: unknown, 1.5 s, 120 s.
ProgressDurations == {0, 150, 12000}

\* buf.join("") followed by split(/\r?\n/): the last line of a chunk and the
\* first line of the next one are one line.
RECURSIVE JoinedLines(_)
JoinedLines(buf) ==
    IF buf = << >> THEN << << >> >>
    ELSE IF Len(buf) = 1 THEN buf[1]
    ELSE LET a == JoinedLines(SubSeq(buf, 1, Len(buf) - 1))
             b == buf[Len(buf)]
         IN  SubSeq(a, 1, Len(a) - 1) \o << a[Len(a)] \o b[1] >> \o Tail(b)

\* Without the slice: the whole text is quoted.
LastOfAll(lines, n) == lines

\* slice(-n)
LastOf(lines, n) ==
    IF Len(lines) <= n THEN lines
    ELSE SubSeq(lines, Len(lines) - n + 1, Len(lines))

\* The argument is the state of main at the call; of it only
\* totalDurationSeconds matters to encodeWithProgress.
ProgressInit ==
    /\ pc = "encode"
    /\ inputExists = TRUE
    /\ assetEmbedded = FALSE
    /\ ffmpegSpawnPathCached = "ffmpeg"
    /\ ffprobeSpawnPathCached = "ffprobe"
    /\ tempBinaries = 0
    /\ probeText = << >>
    /\ totalDurationSeconds \in ProgressDurations
    /\ mapIdx = ""
    /\ thumbFile = "nonempty"
    /\ inputSizeBytes = 0
    /\ origTotalBitrateKbps = 0
    /\ audioQuery = NoQuery
    /\ audioTotalBitrateKbps = 0
    /\ audioStreamCount = 0
    /\ targetVideoBitrateKbps = 0
    /\ encoderList = [stdout |-> << >>, stderr |-> << >>]
    /\ usingNvenc = FALSE
    /\ videoEncoder = VideoEncoder(FALSE)
    /\ videoEncoderOptions = VideoEncoderOptions(FALSE, 0)
    /\ ffArgs = FfArgs(videoEncoder, videoEncoderOptions)
    /\ launches = << >>
    /\ encodeResults = << >>
    /\ exitCode = 0
    /\ rmCalls = 0
    /\ errorMessage = ""
    /\ thumbRuns = << >>
    /\ spawned = 0
    /\ procLog = << >>
    /\ EncodeIdle
    /\ RunIdle
    /\ PromptIdle

\* Lines 568-586: the child is spawned, lastPercent starts at -1 and the
\* progress bar is created when the duration is known.
EncodeWithProgressSpawn ==
    /\ encPc = "idle"
    /\ encPc' = "running"
    /\ lastPercent' = 0 - PercentDen(totalDurationSeconds)
    /\ progressBar' = (totalDurationSeconds > 0)
    /\ UNCHANGED <<outTimeMs, percent, updates, stdoutBuf, stderrBuf,
                   lastLines, childCode, errorCode, settled>>
    /\ UNCHANGED <<mainVars, runVars, promptVars>>

\* handleChunk(d, true), lines 620-627 and 629
HandleChunkStdout ==
    /\ encPc = "running"
    /\ Len(stdoutBuf) + Len(stderrBuf) < MaxChunks
    /\ \E chunk \in StdoutChunks :
          LET st == ForEachLine([lastPercent |-> lastPercent,
                                 outTimeMs |-> outTimeMs,
                                 percent |-> percent,
                                 updates |-> updates],
                                chunk, totalDurationSeconds)
          IN  /\ lastPercent' = st.lastPercent
              /\ outTimeMs' = st.outTimeMs
              /\ percent' = st.percent
              /\ updates' = st.updates
              /\ stdoutBuf' = Append(stdoutBuf, chunk)
    /\ UNCHANGED <<encPc, progressBar, stderrBuf, lastLines, childCode,
                   errorCode, settled>>
    /\ UNCHANGED <<mainVars, runVars, promptVars>>

\* handleChunk(d, false), lines 620-627 and 630
HandleChunkStderr ==
    /\ encPc = "running"
    /\ Len(stdoutBuf) + Len(stderrBuf) < MaxChunks
    /\ \E chunk \in StderrChunks :
          stderrBuf' = Append(stderrBuf, chunk)
    /\ UNCHANGED <<encPc, progressBar, lastPercent, outTimeMs, percent,
                   updates, stdoutBuf, lastLines, childCode, errorCode,
                   settled>>
    /\ UNCHANGED <<mainVars, runVars, promptVars>>

\* The close handler, lines 632-644: resolve(0), or reject with an error
\* whose message holds the exit code and lastLines.
OnClose ==
    /\ encPc = "running"
    /\ \E code \in ExitCodes :
          /\ childCode' = code
          /\ IF code = 0
             THEN /\ encPc' = "resolved"
                  /\ lastLines' = << >>
                  /\ errorCode' = -1
             ELSE /\ encPc' = "rejected"
                  /\ lastLines' = LastOf(JoinedLines(stderrBuf)
                                             \o JoinedLines(stdoutBuf),
                                         LastLinesKept)
                  /\ errorCode' = code
    /\ settled' = settled + 1
    /\ UNCHANGED <<progressBar, lastPercent, outTimeMs, percent, updates,
                   stdoutBuf, stderrBuf>>
    /\ UNCHANGED <<mainVars, runVars, promptVars>>

ProgressNext ==
    \/ EncodeWithProgressSpawn
    \/ HandleChunkStdout
    \/ HandleChunkStderr
    \/ OnClose

ProgressSpec == ProgressInit /\ [][ProgressNext]_vars

-----------------------------------------------------------------------------
(* runCommand, lines 431-440, on its own: the spawn, the data events of the *)
(* child's stdout and stderr, and the close event.  A text is a sequence of *)
(* tokens and += is concatenation.                                          *)

\* Chunks a helper writes on either stream.
RunChunks ==
    { <<"ffmpeg version">>,
      <<"Duration:", "00:02:00.00">>,
      <<"Stream #0:1", "Audio:">> }

\* Line 433
RunCommandSpawn ==
    /\ rcPc = "idle"
    /\ rcPc' = "running"
    /\ rcChildren' = rcChildren + 1
    /\ UNCHANGED <<rcEmitted, rcStdout, rcStderr, rcResult, rcExit>>
    /\ UNCHANGED <<mainVars, progressVars, promptVars>>

\* Line 436
RunCommandStdoutData ==
    /\ rcPc = "running"
    /\ Len(rcEmitted) < MaxChunks
    /\ \E d \in RunChunks :
          /\ rcEmitted' = Append(rcEmitted, [stream |-> "stdout", text |-> d])
          /\ rcStdout' = rcStdout \o d
    /\ UNCHANGED <<rcPc, rcChildren, rcStderr, rcResult, rcExit>>
    /\ UNCHANGED <<mainVars, progressVars, promptVars>>

\* Line 437
RunCommandStderrData ==
    /\ rcPc = "running"
    /\ Len(rcEmitted) < MaxChunks
    /\ \E d \in RunChunks :
          /\ rcEmitted' = Append(rcEmitted, [stream |-> "stderr", text |-> d])
          /\ rcStderr' = rcStderr \o d
    /\ UNCHANGED <<rcPc, rcChildren, rcStdout, rcResult, rcExit>>
    /\ UNCHANGED <<mainVars, progressVars, promptVars>>

\* A close handler that rejects when the child failed.
RunCommandCloseRejects ==
    /\ rcPc = "running"
    /\ \E code \in ExitCodes :
          /\ rcExit' = code
          /\ IF code = 0
             THEN /\ rcPc' = "resolved"
                  /\ rcResult' = Append(rcResult,
                                        [code |-> code, stdout |-> rcStdout,
                                         stderr |-> rcStderr])
             ELSE /\ rcPc' = "rejected"
                  /\ UNCHANGED rcResult
    /\ UNCHANGED <<rcChildren, rcEmitted, rcStdout, rcStderr>>
    /\ UNCHANGED <<mainVars, progressVars, promptVars>>

\* Line 438: the child has closed and the promise is resolved.
RunCommandClose ==
    /\ rcPc = "running"
    /\ \E code \in ExitCodes :
          /\ rcExit' = code
          /\ rcResult' = Append(rcResult,
                                [code |-> code, stdout |-> rcStdout,
                                 stderr |-> rcStderr])
    /\ rcPc' = "resolved"
    /\ UNCHANGED <<rcChildren, rcEmitted, rcStdout, rcStderr>>
    /\ UNCHANGED <<mainVars, progressVars, promptVars>>

RunCommandNext ==
    \/ RunCommandSpawn
    \/ RunCommandStdoutData
    \/ RunCommandStderrData
    \/ RunCommandClose

RunCommandSpec == Init /\ [][RunCommandNext]_vars

-----------------------------------------------------------------------------
(* promptForPath, lines 450-459, on its own.  A line is a sequence of       *)
(* characters: a space, a double quote, or a character of a file name.      *)

Quote == "\""

PromptChars == {" ", Quote, "a"}

\* Lines the user may enter.
PromptLines == UNION { [1..n -> PromptChars] : n \in 0..MaxLineLen }

\* String.prototype.trim for the white space of the model.
RECURSIVE Trim(_)
Trim(str) ==
    IF str = << >> THEN str
    ELSE IF Head(str) = " " THEN Trim(Tail(str))
    ELSE IF str[Len(str)] = " " THEN Trim(SubSeq(str, 1, Len(str) - 1))
    ELSE str

\* replace(/^\"|\"|$/g, ""), line 458: the second alternative matches every
\* double quote, the third the empty string at the end.
ReplaceQuotes(str) == SelectSeq(str, LAMBDA c : c # Quote)

\* Lines 451-455: the prompt is written and the question is asked.
PromptAsk ==
    /\ promptPc = "idle"
    /\ promptPc' = "asked"
    /\ UNCHANGED <<answer, promptReturn>>
    /\ UNCHANGED <<mainVars, progressVars, runVars>>

\* Line 456: the user enters a line.
PromptAnswer ==
    /\ promptPc = "asked"
    /\ answer' \in PromptLines
    /\ promptPc' = "answered"
    /\ UNCHANGED promptReturn
    /\ UNCHANGED <<mainVars, progressVars, runVars>>

\* Lines 457-458
PromptReturn ==
    /\ promptPc = "answered"
    /\ promptReturn' = ReplaceQuotes(Trim(answer))
    /\ promptPc' = "returned"
    /\ UNCHANGED answer
    /\ UNCHANGED <<mainVars, progressVars, runVars>>

PromptNext ==
    \/ PromptAsk
    \/ PromptAnswer
    \/ PromptReturn

PromptSpec == Init /\ [][PromptNext]_vars

-----------------------------------------------------------------------------
(* Properties *)

\* The bitrate planning step has run in this state.
Planned ==
    \/ pc \in {"detect", "encode", "encoding", "cleanup"}
    \/ pc = "done" /\ launches # << >>

\* The encoder has been chosen in this state.
Chosen ==
    \/ pc \in {"encode", "encoding", "cleanup"}
    \/ pc = "done" /\ launches # << >>

\* The last encode closed with exit code 0.
EncodeSucceeded ==
    /\ encodeResults # << >>
    /\ encodeResults[Len(encodeResults)].code = 0

\* C1: when a run has ended, on whatever exit path, the temporary thumbnail
\* file does not exist on disk.
C1_ThumbnailGoneAtEnd ==
    pc = "done" => thumbFile = "absent"

\* C2: at the end of a run the exit code is 0 exactly when the encode
\* completed successfully and 1 otherwise, and once it is 1 it stays 1.
C2_ExitCode ==
    /\ [](pc = "done" =>
            /\ exitCode \in {0, 1}
            /\ exitCode = 0 <=> EncodeSucceeded)
    /\ [][exitCode = 1 => exitCode' = 1]_vars

\* C2 witness: a run that ended after a failed encode, with exit code 1.
C2_Witness ==
    /\ pc = "done"
    /\ encodeResults # << >>
    /\ encodeResults[1].code # 0
    /\ exitCode = 1

\* C3 as stated: for a positive input size and a positive duration the
\* planned target video bitrate is at least 300 kbps.
C3_TargetAtLeastFloor ==
    (Planned /\ inputSizeBytes > 0 /\ totalDurationSeconds > 0)
        => targetVideoBitrateKbps >= 300

\* C3 amended: for a positive input size and a positive duration the target
\* is at least 300 kbps when the input averages 500 bit/s or more (its total
\* bitrate rounds to 1 kbps or more), and is 0 when it averages less.
\* 500 bit/s is 5 bits per 1/100 s.
C3_TargetFloorOrZero ==
    (Planned /\ inputSizeBytes > 0 /\ totalDurationSeconds > 0)
        => IF inputSizeBytes * 8 >= 5 * totalDurationSeconds
           THEN targetVideoBitrateKbps >= 300
           ELSE targetVideoBitrateKbps = 0

\* C3 witness: half the original bitrate less the audio is below the floor
\* and the target is the floor.
C3_Witness ==
    /\ Planned
    /\ inputSizeBytes > 0
    /\ totalDurationSeconds > 0
    /\ origTotalBitrateKbps > 0
    /\ origTotalBitrateKbps < 2 * audioTotalBitrateKbps
    /\ targetVideoBitrateKbps = 300

\* Durations of 0 or less, in 1/100 s, and audio estimates for C4.
C4_Durations == {-12000, -1, 0}
C4_AudioKbps == {0, 97, 192, 384}

\* C4: with the duration unknown (<= 0) the original total bitrate and the
\* target video bitrate are both 0, whatever the size and the audio estimate:
\* in every run of main, and for the planning computations applied to any
\* size, any duration <= 0 and any audio estimate.
C4_UnknownDurationNoPlan ==
    /\ (Planned /\ totalDurationSeconds <= 0)
          => origTotalBitrateKbps = 0 /\ targetVideoBitrateKbps = 0
    /\ \A size \in Sizes, d \in C4_Durations, audio \in C4_AudioKbps :
          /\ OrigTotalBitrateKbps(size, d) = 0
          /\ TargetVideoBitrateKbps(OrigTotalBitrateKbps(size, d), audio) = 0

\* C4 witness: duration unknown, a large input and a non-zero audio estimate.
C4_Witness ==
    /\ Planned
    /\ totalDurationSeconds = 0
    /\ inputSizeBytes > 1000000
    /\ audioTotalBitrateKbps > 0
    /\ targetVideoBitrateKbps = 0

\* round(inputSizeBytes * 8 / durationSeconds / 1000) from the inputs, the
\* duration in 1/100 s: twice the quotient plus one, halved.
C5_RoundedTotal ==
    (2 * (inputSizeBytes * 8) + 10 * totalDurationSeconds)
        \div (20 * totalDurationSeconds)

\* max(300, round(total * 0.5) - audioKbps)
C5_Formula ==
    Max(300, ((C5_RoundedTotal + 1) \div 2) - audioTotalBitrateKbps)

\* C5 as stated: for a size >= 0 and a positive duration the target video
\* bitrate is max(300, round(round(size*8/duration/1000) * 0.5) - audioKbps).
C5_TargetIsFormula ==
    (Planned /\ inputSizeBytes >= 0 /\ totalDurationSeconds > 0)
        => targetVideoBitrateKbps = C5_Formula

\* C5 amended: the target is that formula when the original total bitrate
\* rounds to 1 kbps or more, and 0 when it rounds to 0.
C5_TargetIsFormulaOrZero ==
    (Planned /\ inputSizeBytes >= 0 /\ totalDurationSeconds > 0)
        => targetVideoBitrateKbps =
               IF C5_RoundedTotal > 0 THEN C5_Formula ELSE 0

\* C5 witness: an odd original total, so that the rounding of its half
\* matters, and a target above the floor.
C5_Witness ==
    /\ Planned
    /\ totalDurationSeconds > 0
    /\ origTotalBitrateKbps % 2 = 1
    /\ targetVideoBitrateKbps > 300

\* The scenario of C6: 120 s, one audio stream without a bit rate.
C6_Scenario ==
    /\ Planned
    /\ totalDurationSeconds = 12000
    /\ audioQuery = [ok |-> TRUE, streams |-> <<NoBitRate>>]

\* The sizes "100 MB" can mean: 10^8 bytes, 100 * 1024 * 1000 bytes and
\* 100 * 1024 * 1024 bytes (the MB of line 747).
C6_HundredMB == {100000000, 102400000, 104857600}

\* C6 as stated: a 120 s input of 100 MB with one audio stream without a bit
\* rate gives original total 6827, target total 3413, audio 192 and target
\* video 3221 kbps.
C6_ScenarioNumbers ==
    (C6_Scenario /\ inputSizeBytes \in C6_HundredMB)
        => /\ origTotalBitrateKbps = 6827
           /\ targetVideoBitrateKbps + audioTotalBitrateKbps = 3413
           /\ audioTotalBitrateKbps = 192
           /\ targetVideoBitrateKbps = 3221

\* C6 amended: with 100 MB = 104857600 bytes the plan is 6991, 3496, 192 and
\* 3304 kbps; with 102400000 bytes, the size that gives a total of 6827, it
\* is 6827, 3414, 192 and 3222; with 10^8 bytes 6667, 3334, 192 and 3142.
C6_ScenarioNumbersAmended ==
    C6_Scenario =>
        /\ audioTotalBitrateKbps = 192
        /\ audioStreamCount = 1
        /\ inputSizeBytes = 104857600 =>
              /\ origTotalBitrateKbps = 6991
              /\ targetVideoBitrateKbps + audioTotalBitrateKbps = 3496
              /\ targetVideoBitrateKbps = 3304
        /\ inputSizeBytes = 102400000 =>
              /\ origTotalBitrateKbps = 6827
              /\ targetVideoBitrateKbps + audioTotalBitrateKbps = 3414
              /\ targetVideoBitrateKbps = 3222
        /\ inputSizeBytes = 100000000 =>
              /\ origTotalBitrateKbps = 6667
              /\ targetVideoBitrateKbps + audioTotalBitrateKbps = 3334
              /\ targetVideoBitrateKbps = 3142

\* C6 witness: the scenario with 100 * 1024 * 1024 bytes.
C6_Witness ==
    /\ C6_Scenario
    /\ inputSizeBytes = 104857600
    /\ targetVideoBitrateKbps = 3304

\* The encoder an argument list names: the token after "-c:v:0".
EncoderArg(args) ==
    args[(CHOOSE i \in 1..Len(args) : args[i] = "-c:v:0") + 1]

\* The names on either stream of the encoder listing.
ListedNames ==
    { encoderList.stdout[i] : i \in 1..Len(encoderList.stdout) }
        \cup { encoderList.stderr[i] : i \in 1..Len(encoderList.stderr) }

\* The listing holds the hardware AV1 identifier, in either case.
ListsHardware == ListedNames \cap {"av1_nvenc", "AV1_NVENC"} # {}

\* The listing holds the software AV1 identifier, in either case.
ListsSoftware == ListedNames \cap {"libsvtav1", "LIBSVTAV1"} # {}

\* C7: whenever the encoder listing holds the hardware AV1 identifier (in
\* any case, on stdout or stderr), the hardware encoder is the one selected
\* and launched, whether or not the software identifier is listed too.
C7_HardwareFirst ==
    (Chosen /\ ListsHardware)
        => /\ usingNvenc
           /\ videoEncoder = "av1_nvenc"
           /\ EncoderArg(ffArgs) = "av1_nvenc"
           /\ \A i \in 1..Len(launches) : EncoderArg(launches[i]) = "av1_nvenc"

\* C7 witness: both identifiers listed, the encode launched with av1_nvenc.
C7_Witness ==
    /\ pc = "encoding"
    /\ ListsHardware
    /\ ListsSoftware
    /\ EncoderArg(launches[1]) = "av1_nvenc"

Follows(tokens, flag, value) ==
    \E i \in 1..(Len(tokens) - 1) : tokens[i] = flag /\ tokens[i + 1] = value

\* part occurs in whole as a run of consecutive tokens.
IsInfix(part, whole) ==
    \E k \in 0..(Len(whole) - Len(part)) :
        \A i \in 1..Len(part) : whole[k + i] = part[i]

\* C9: with a non-zero target T the options passed to the encode hold the
\* bitrate T, the max-rate round(1.5 T) and the buffer size 3 T, in kbps,
\* with the speed and tuning flags of the selected encoder, and hold no
\* quality-only setting; for the hardware and for the software encoder.
C9_ExplicitRate ==
    (Chosen /\ targetVideoBitrateKbps # 0)
        => LET t == targetVideoBitrateKbps
               o == videoEncoderOptions
           IN  /\ Follows(o, "-b:v:0", ToString(t) \o "k")
               /\ Follows(o, "-maxrate:v:0", ToString((3 * t + 1) \div 2) \o "k")
               /\ Follows(o, "-bufsize:v:0", ToString(3 * t) \o "k")
               /\ IF videoEncoder = "av1_nvenc"
                  THEN /\ Follows(o, "-rc", "vbr")
                       /\ Follows(o, "-preset", "p6")
                       /\ Follows(o, "-tune", "hq")
                       /\ Follows(o, "-spatial-aq", "1")
                       /\ Follows(o, "-aq-strength", "8")
                  ELSE /\ Follows(o, "-preset", "8")
                       /\ Follows(o, "-tune", "0")
               /\ \A i \in 1..Len(o) : o[i] \notin {"-crf", "-cq"}
               /\ ~Follows(o, "-b:v", "0")
               /\ IsInfix(o, ffArgs)
               /\ \A i \in 1..Len(launches) : IsInfix(o, launches[i])

\* C9 witness: the software encoder running with an odd target above the
\* floor, so that the max-rate is a rounded value.
C9_Witness ==
    /\ pc = "encoding"
    /\ videoEncoder = "libsvtav1"
    /\ targetVideoBitrateKbps > 300
    /\ targetVideoBitrateKbps % 2 = 1
    /\ IsInfix(videoEncoderOptions, launches[1])

\* An argument list without the thumbnail input and its mapping.
OmitsThumbnail(args) ==
    /\ \A i \in 1..Len(args) : args[i] # "tempThumb"
    /\ ~Follows(args, "-map", "1")
    /\ ~Follows(args, "-disposition:v:1", "attached_pic")

-----------------------------------------------------------------------------
(* C11: the number of encode launches and the fatal failures *)

\* C11: in any run the encode subprocess is launched at most twice; a
\* primary encode that exited non-zero with a text that is not a muxing one
\* is fatal without a further launch (one launch, exit code 1, main past the
\* encode); and when a second encode has closed with a non-zero code, that
\* is fatal too, with exit code 1.
C11_AtMostTwoLaunches ==
    /\ Len(launches) <= 2
    /\ Len(encodeResults) <= Len(launches)
    /\ (/\ encodeResults # << >>
        /\ encodeResults[1].code # 0
        /\ encodeResults[1].text # MuxFailure)
          => /\ Len(launches) = 1
             /\ pc \in {"cleanup", "done"}
             /\ exitCode = 1
    /\ (Len(encodeResults) >= 2 /\ encodeResults[2].code # 0)
          => /\ pc \in {"cleanup", "done"}
             /\ exitCode = 1

\* C11 witness: a run ended after a primary encode that failed with a text
\* that is not a muxing one.
C11_Witness ==
    /\ pc = "done"
    /\ Len(launches) = 1
    /\ encodeResults = << [code |-> 1, text |-> OtherFailure] >>
    /\ exitCode = 1

-----------------------------------------------------------------------------
(* C12: which thumbnail subprocesses run, and when the step throws *)

\* extractOrGenerateThumbnail has returned or thrown.
ThumbnailSettled ==
    \/ pc \in {"verify", "stat", "audio", "detect", "encode", "encoding",
               "cleanup"}
    \/ pc = "done" /\ thumbRuns # << >>

\* extractOrGenerateThumbnail has thrown: main ended in the outer catch with
\* one of the two messages of lines 510 and 515.
ThumbnailThrown ==
    /\ pc = "done"
    /\ errorMessage \in {"Failed to extract or generate thumbnail",
                         "Failed to generate thumbnail"}

ThumbKinds == { thumbRuns[i].kind : i \in 1..Len(thumbRuns) }

\* C12: once extractOrGenerateThumbnail has settled, the stream-copy
\* extraction has run if and only if findAttachedPicMapIndex found an
\* attached picture; the still-frame generation has run exactly when none
\* was found or the extraction exited non-zero; and the step has thrown
\* exactly when the last thumbnail subprocess it ran exited non-zero.  Each
\* of the two subprocesses runs at most once, the extraction first.
C12_ExtractThenGenerate ==
    ThumbnailSettled =>
        LET found == findAttachedPicMapIndex(probeText) # ""
            extractFailed ==
                \E i \in 1..Len(thumbRuns) :
                    thumbRuns[i].kind = "extract" /\ thumbRuns[i].code # 0
        IN  /\ thumbRuns # << >>
            /\ ("extract" \in ThumbKinds) <=> found
            /\ ("generate" \in ThumbKinds) <=> (~found \/ extractFailed)
            /\ ThumbnailThrown <=> (thumbRuns[Len(thumbRuns)].code # 0)
            /\ Len(thumbRuns) <= 2
            /\ Len(thumbRuns) = 2 =>
                   /\ thumbRuns[1].kind = "extract"
                   /\ thumbRuns[2].kind = "generate"

\* C12 witness: an attached picture was found, its extraction exited
\* non-zero, the generation that followed exited 0 and the step returned.
C12_Witness ==
    /\ pc = "verify"
    /\ mapIdx # ""
    /\ thumbRuns = << [kind |-> "extract", code |-> 1],
                      [kind |-> "generate", code |-> 0] >>

-----------------------------------------------------------------------------
(* C13: a failed thumbnail step is fatal before any encode *)

\* The thumbnail step failed: the last thumbnail subprocess exited non-zero,
\* or the file that the subprocesses left is missing or empty.  (Before the
\* finally block nothing but the thumbnail subprocesses touches the file.)
C13_ThumbnailFailed ==
    /\ thumbRuns # << >>
    /\ \/ thumbRuns[Len(thumbRuns)].code # 0
       \/ thumbFile # "nonempty"

\* C13: main gets past the verification of the thumbnail only with a last
\* thumbnail subprocess that exited 0 and a non-empty file; an encode is
\* launched only in such a run; and a run that ended with a failed thumbnail
\* step and without the finally block has launched no encode and has exit
\* code 1.
C13_ThumbnailFailureFatal ==
    /\ pc \in {"stat", "audio", "detect", "encode", "encoding", "cleanup"}
          => ~C13_ThumbnailFailed /\ thumbRuns # << >>
    /\ launches # << >>
          => /\ thumbRuns # << >>
             /\ thumbRuns[Len(thumbRuns)].code = 0
             /\ rmCalls = 0 => thumbFile = "nonempty"
    /\ (pc = "done" /\ rmCalls = 0 /\ C13_ThumbnailFailed)
          => /\ launches = << >>
             /\ spawned = 1 + Len(thumbRuns)
             /\ exitCode = 1

\* C13 witness: the extraction and the generation both exited non-zero and
\* the run has ended.
C13_Witness ==
    /\ pc = "done"
    /\ Len(thumbRuns) = 2
    /\ thumbRuns[1].code # 0
    /\ thumbRuns[2].code # 0
    /\ launches = << >>
    /\ exitCode = 1

\* C13 witness for the empty result: the generation exited 0, left an empty
\* file, and the run has ended without an encode.
C13_WitnessEmpty ==
    /\ pc = "done"
    /\ thumbRuns = << [kind |-> "generate", code |-> 0] >>
    /\ thumbFile = "empty"
    /\ launches = << >>
    /\ exitCode = 1

-----------------------------------------------------------------------------
(* C14: the input path does not name an existing file *)

\* C14: when the input path does not name an existing file, main is either
\* still at its start or has ended, with the 'File not found' message and
\* exit code 1; no external subprocess has been spawned, no helper binary
\* has been extracted, no thumbnail has been written and no encode (the only
\* writer of the output file) has been launched.
C14_FileNotFound ==
    ~inputExists =>
        /\ pc \in {"start", "done"}
        /\ pc = "done" => /\ errorMessage = "Error: File not found"
                          /\ exitCode = 1
        /\ spawned = 0
        /\ tempBinaries = 0
        /\ ffmpegSpawnPathCached = "ffmpeg"
        /\ ffprobeSpawnPathCached = "ffprobe"
        /\ thumbRuns = << >>
        /\ thumbFile = "absent"
        /\ launches = << >>
        /\ rmCalls = 0

\* C14 witness: a run on a missing input has ended.
C14_Witness ==
    /\ ~inputExists
    /\ pc = "done"
    /\ errorMessage = "Error: File not found"
    /\ exitCode = 1
    /\ spawned = 0

-----------------------------------------------------------------------------
(* C15: unknown duration and unknown audio bitrate are not fatal *)

\* The steps from the probe to the launch of the encode in which the
\* duration or the audio bitrate is obtained or used never end the run: the
\* probe that returned a text goes on to the thumbnail step whatever the
\* duration parsed from it, the audio step goes on to the detection whatever
\* the query gave, the choice of the encoder goes on to the encode.
C15_StepsGoOn ==
    /\ (pc = "probe" /\ spawned' = spawned + 1)
          => pc' = "thumbnail" /\ exitCode' = exitCode
    /\ pc = "audio" => pc' = "detect" /\ exitCode' = exitCode
    /\ pc = "detect" => pc' = "encode" /\ exitCode' = exitCode
    /\ pc = "encode" => pc' = "encoding" /\ launches' # << >>
                                         /\ exitCode' = exitCode

\* A run that ended before any encode ended for one of the fatal causes,
\* none of which is the duration or the audio bitrate.
C15_FatalCauses ==
    (pc = "done" /\ launches = << >>)
        => errorMessage \in
               {"Error: File not found",
                "Failed to prepare embedded binary",
                "Failed to extract or generate thumbnail",
                "Failed to generate thumbnail",
                "Thumbnail file is missing or empty. Cannot proceed.",
                "ENOENT: no such file or directory, stat"}

\* With an unknown duration the options chosen are the quality-based
\* defaults, and no token of them or of the encode's arguments is an
\* explicit bitrate, a max-rate or a buffer size.
C15_QualityDefaults ==
    (Chosen /\ totalDurationSeconds = 0)
        => /\ origTotalBitrateKbps = 0
           /\ targetVideoBitrateKbps = 0
           /\ videoEncoderOptions =
                  (IF videoEncoder = "av1_nvenc"
                   THEN <<"-rc", "vbr", "-cq", "28", "-b:v", "0", "-preset",
                          "p6", "-tune", "hq", "-spatial-aq", "1",
                          "-aq-strength", "8">>
                   ELSE <<"-crf", "30", "-b:v", "0", "-preset", "8", "-tune",
                          "0">>)
           /\ \A i \in 1..Len(ffArgs) :
                  ffArgs[i] \notin {"-b:v:0", "-maxrate:v:0", "-bufsize:v:0"}
           /\ \A k \in 1..Len(launches) : launches[k] = ffArgs

\* C15: an unknown duration (parseDurationSeconds returned 0) or an unknown
\* audio bitrate (the query failed, or no stream reported one) never aborts
\* the run: the steps that obtain and use them always go on towards the
\* encode, every run that ends before the encode ends for another cause,
\* and with an unknown duration the encoder options are the quality-based
\* defaults with no explicit bitrate, max-rate or buffer size.
C15_ProbeAmbiguityNotFatal ==
    /\ [][C15_StepsGoOn]_vars
    /\ [](C15_FatalCauses /\ C15_QualityDefaults)

\* C15 witness: the encode is running with an unknown duration and an audio
\* query that failed on a text without audio marker.
C15_Witness ==
    /\ pc = "encoding"
    /\ probeText # << >>
    /\ totalDurationSeconds = 0
    /\ ~audioQuery.ok
    /\ audioTotalBitrateKbps = 0
    /\ launches # << >>

-----------------------------------------------------------------------------
(* C16: the percent computed from a progress line *)

\* The lines handed to onProgressLine so far, chunk by chunk.
RECURSIVE LinesSeen(_)
LinesSeen(buf) ==
    IF buf = << >> THEN << >>
    ELSE LinesSeen(SubSeq(buf, 1, Len(buf) - 1)) \o buf[Len(buf)]

\* The positions of the lines seen that read out_time_ms=<digits>...
ProgressLinesSeen ==
    { i \in 1..Len(LinesSeen(stdoutBuf)) :
        LET l == LinesSeen(stdoutBuf)[i]
        IN  /\ Len(l) >= 3
            /\ SubSeq(l, 1, 2) = <<"out_time_", "ms=">>
            /\ l[3] \in Digit }

\* C16: with a known total duration D > 0, after every progress line
\* out_time_ms=<n> the percent computed is min(100, max(0, 100 * (n /
\* 1000000) / D)), where n is the number written on the last such line
\* seen; it lies within [0, 100]; and out_time_ms=60000000 with D = 120
\* gives 50.  (The percent is compared as a numerator over
\* PercentDen(totalDurationSeconds) = 1000000 * D.)
C16_PercentFormula ==
    (encPc # "idle" /\ totalDurationSeconds > 0) =>
        LET den == 100 * totalDurationSeconds
            seen == ProgressLinesSeen
        IN  /\ (outTimeMs = -1) <=> (seen = {})
            /\ (percent = -1) <=> (seen = {})
            /\ seen # {} =>
                 LET k == CHOOSE i \in seen : \A j \in seen : j <= i
                     l == LinesSeen(stdoutBuf)[k]
                     n == Decimal(outTimeMs)
                 IN  /\ SubSeq(l, 3, 2 + Len(n)) = n
                     /\ Len(l) > 2 + Len(n) => l[3 + Len(n)] \notin Digit
                     /\ percent = Min(100 * den, Max(0, outTimeMs))
                     /\ 0 <= percent
                     /\ percent <= 100 * den
                     /\ (totalDurationSeconds = 12000 /\ outTimeMs = 60000000)
                            => percent = 50 * den

\* C16 witness: out_time_ms=60000000 has been read with D = 120 s and the
\* percent computed is 50.
C16_Witness ==
    /\ totalDurationSeconds = 12000
    /\ outTimeMs = 60000000
    /\ percent = 50 * PercentDen(12000)
    /\ Len(stdoutBuf) = 1

\* C16 witness for the cap: a line beyond the total duration gives 100.
C16_WitnessCapped ==
    /\ totalDurationSeconds = 12000
    /\ outTimeMs = 130000000
    /\ percent = FullPercent(12000)

-----------------------------------------------------------------------------
(* C17: the audio estimate from the structured query *)

\* Sum over the streams of the reported rate in kbps, 192 for a stream that
\* reports none.
RECURSIVE C17_SumWithDefault(_)
C17_SumWithDefault(streams) ==
    IF streams = << >> THEN 0
    ELSE (IF Head(streams).has_bit_rate
          THEN MathRoundDiv(Head(streams).bit_rate, 1000)
          ELSE 192) + C17_SumWithDefault(Tail(streams))

\* C17: when the structured audio-stream query succeeded with a non-empty
\* stream list, streamCount is the number of streams and totalKbps is the
\* sum over the streams of the reported bit rate in kbps, with 192 kbps for
\* each stream that reports none, lists mixing both kinds included; one
\* stream with no bit rate gives 192 kbps, count 1.
C17_MissingRateDefault ==
    (Planned /\ audioQuery.ok /\ Len(audioQuery.streams) > 0)
        => /\ audioStreamCount = Len(audioQuery.streams)
           /\ audioTotalBitrateKbps = C17_SumWithDefault(audioQuery.streams)
           /\ audioQuery.streams = <<NoBitRate>>
                  => audioTotalBitrateKbps = 192 /\ audioStreamCount = 1

-----------------------------------------------------------------------------
(* C18: the audio estimate when the structured query failed *)

\* Occurrences of the audio marker in the lines of a probe text.
RECURSIVE C18_Markers(_)
C18_Markers(text) ==
    IF text = << >> THEN 0
    ELSE (IF "Audio:" \in Head(text).tags THEN 1 ELSE 0)
             + C18_Markers(Tail(text))

\* The audio step taken with a failed query goes on to the detection of the
\* encoder and reports no error.
C18_NoThrow ==
    (pc = "audio" /\ ~audioQuery'.ok)
        => /\ pc' = "detect"
           /\ exitCode' = exitCode
           /\ errorMessage' = errorMessage

\* After a failed query the count is the number of audio markers in the
\* probe text and the total is 192 kbps for each of them.
C18_MarkerEstimate ==
    (Planned /\ ~audioQuery.ok)
        => /\ audioStreamCount = C18_Markers(probeText)
           /\ audioTotalBitrateKbps = 192 * audioStreamCount

\* C18: when the structured audio-stream query fails (non-zero exit, empty
\* output, unparsable JSON or an exception), getAudioBitrateInfo does not
\* throw, and it returns streamCount = the number of occurrences of the
\* audio marker in the raw probe text and totalKbps = 192 * streamCount (0
\* when there are none).
C18_QueryFailureFallback ==
    /\ [][C18_NoThrow]_vars
    /\ []C18_MarkerEstimate

\* C18 witness: the query failed on a probe text with two audio markers and
\* the estimate is 384 kbps for 2 streams.
C18_Witness ==
    /\ pc = "detect"
    /\ ~audioQuery.ok
    /\ audioStreamCount = 2
    /\ audioTotalBitrateKbps = 384

-----------------------------------------------------------------------------
(* C19: parseDurationSeconds *)

\* The lines of the probe text that hold a labelled duration.
C19_Stamped ==
    { i \in 1..Len(probeText) :
        /\ probeText[i].label \in {"Duration", "Durée"}
        /\ probeText[i].hms # << >> }

\* C19: once the probe text has been parsed, totalDurationSeconds is
\* hh*3600 + mm*60 + ss + cs/100 (here in 1/100 s) for the first
\* 'Duration: HH:MM:SS[.cc]' of the text, cs being 0 without the fraction;
\* it is 3723.45 s for 01:02:03.45; it is 0 when the text has no such
\* pattern; and it is never negative.
C19_DurationFormula ==
    probeText # << >> =>
        /\ totalDurationSeconds >= 0
        /\ C19_Stamped = {} => totalDurationSeconds = 0
        /\ \A i \in C19_Stamped :
               (\A j \in C19_Stamped : i <= j) =>
                   LET t == probeText[i].hms
                   IN  /\ totalDurationSeconds =
                              360000 * t[1] + 6000 * t[2] + 100 * t[3]
                                  + (IF Len(t) = 4 THEN t[4] ELSE 0)
                       /\ t = <<1, 2, 3, 45>> => totalDurationSeconds = 372345

\* C19 witness: a text whose first duration is 01:02:03.45, followed by
\* another duration, has been parsed to 3723.45 s.
C19_Witness ==
    /\ probeText # << >>
    /\ probeText[1].hms = <<1, 2, 3, 45>>
    /\ Cardinality(C19_Stamped) = 2
    /\ totalDurationSeconds = 372345

\* C19 witness for the absent pattern: "Duration: N/A" has been parsed to 0.
C19_WitnessNone ==
    /\ probeText = << Line("Duration", NoTime, "", {}) >>
    /\ totalDurationSeconds = 0
    /\ pc = "thumbnail"

-----------------------------------------------------------------------------
(* C20: findAttachedPicMapIndex *)

\* The lines that both mention an attached picture and carry a stream
\* specifier.
C20_PictureLines ==
    { i \in 1..Len(probeText) :
        /\ "attached pic" \in probeText[i].tags
        /\ probeText[i].spec # "" }

\* C20: once extractOrGenerateThumbnail has run its first subprocess, the
\* result of findAttachedPicMapIndex it acted on is the specifier of the
\* first line, in text order, that both contains 'attached pic' and carries
\* a stream specifier; it is null ("") when no line has both; and it is
\* never the specifier of a line without the annotation.
C20_FirstAttachedPic ==
    thumbRuns # << >> =>
        /\ C20_PictureLines = {} <=> mapIdx = ""
        /\ C20_PictureLines = {} <=> thumbRuns[1].kind = "generate"
        /\ \A i \in C20_PictureLines :
               (\A j \in C20_PictureLines : i <= j) =>
                   mapIdx = probeText[i].spec
        /\ \A i \in 1..Len(probeText) :
               (probeText[i].spec # "" /\ "attached pic" \notin probeText[i].tags)
                   => mapIdx # probeText[i].spec

\* C20 witness: the text with an annotation line without specifier and two
\* cover lines gave the specifier of the first cover line.
C20_Witness ==
    /\ thumbRuns # << >>
    /\ Cardinality(C20_PictureLines) = 2
    /\ mapIdx = "0:3"

-----------------------------------------------------------------------------
(* C21: runCommand *)

\* The text the child has written on one stream, in order.
RECURSIVE C21_Written(_, _)
C21_Written(events, stream) ==
    IF events = << >> THEN << >>
    ELSE C21_Written(SubSeq(events, 1, Len(events) - 1), stream)
             \o (IF events[Len(events)].stream = stream
                 THEN events[Len(events)].text ELSE << >>)

\* C21: runCommand never rejects, whatever the exit code of the child; it
\* resolves exactly once, and exactly when the child has closed, with the
\* exit code of the child and all the text the child wrote on stdout and on
\* stderr; and a call has spawned exactly one child process.
C21_RunCommandResolves ==
    /\ rcPc \in {"idle", "running", "resolved"}
    /\ rcChildren = (IF rcPc = "idle" THEN 0 ELSE 1)
    /\ Len(rcResult) = (IF rcPc = "resolved" THEN 1 ELSE 0)
    /\ (rcExit # -1) <=> (rcPc = "resolved")
    /\ rcPc = "resolved" =>
           /\ rcResult[1].code = rcExit
           /\ rcResult[1].stdout = C21_Written(rcEmitted, "stdout")
           /\ rcResult[1].stderr = C21_Written(rcEmitted, "stderr")

\* C21 witness: a child that wrote on both streams and exited with code 1
\* has closed, and the call has resolved with code 1.
C21_Witness ==
    /\ rcPc = "resolved"
    /\ rcExit = 1
    /\ rcResult[1].code = 1
    /\ rcResult[1].stdout # << >>
    /\ rcResult[1].stderr # << >>
    /\ Len(rcEmitted) = 3

-----------------------------------------------------------------------------
(* C22: the number of removals of the temporary thumbnail *)

\* C22: the removal of the temporary thumbnail is never performed twice,
\* and in every run that has ended after the thumbnail path was chosen
\* (that is, after the existence check of the input has passed) it has been
\* performed exactly once.
C22_RemovedExactlyOnce ==
    /\ rmCalls <= 1
    /\ (pc = "done" /\ inputExists) => rmCalls = 1

-----------------------------------------------------------------------------
(* C23: one external subprocess at a time *)

\* Subprocesses alive after the first n events of the log.
C23_Alive(n) ==
    Cardinality({ i \in 1..n : procLog[i].ev = "spawn" })
        - Cardinality({ i \in 1..n : procLog[i].ev = "close" })

\* The place of a subprocess in the pipeline of main.
C23_Rank(proc) ==
    CASE proc = "probe" -> 1 [] proc = "extract" -> 2
      [] proc = "generate" -> 3 [] proc = "audio" -> 4
      [] proc = "encoders" -> 5 [] proc = "encode" -> 6

\* C23: at every moment of a run at most one external subprocess is alive:
\* in the log of a run, spawns and closes alternate, a close is that of the
\* subprocess spawned just before it, so every subprocess is spawned only
\* after the previous one has closed; the subprocesses come in the order
\* probe, thumbnail extraction, thumbnail generation, audio-stream query,
\* encoder listing, encode; and the log holds every subprocess spawned.
C23_OneSubprocessAtATime ==
    /\ \A n \in 0..Len(procLog) : C23_Alive(n) \in {0, 1}
    /\ \A i \in 1..Len(procLog) :
           /\ procLog[i].ev = (IF i % 2 = 1 THEN "spawn" ELSE "close")
           /\ i % 2 = 0 => procLog[i].proc = procLog[i - 1].proc
           /\ (i % 2 = 1 /\ i > 2)
                  => C23_Rank(procLog[i - 2].proc) < C23_Rank(procLog[i].proc)
    /\ spawned = Cardinality({ i \in 1..Len(procLog) :
                                 procLog[i].ev = "spawn" })
    /\ C23_Alive(Len(procLog)) = (IF pc = "encoding" THEN 1 ELSE 0)

\* C23 witness: the six subprocesses of a run have been spawned and have
\* closed, one after the other.
C23_Witness ==
    /\ pc = "cleanup"
    /\ Len(procLog) = 12
    /\ procLog[1] = Spawn("probe")
    /\ procLog[3] = Spawn("extract")
    /\ procLog[5] = Spawn("generate")
    /\ procLog[7] = Spawn("audio")
    /\ procLog[9] = Spawn("encoders")
    /\ procLog[11] = Spawn("encode")
    /\ procLog[12] = Close("encode")

-----------------------------------------------------------------------------
(* C24: when the displayed status is updated *)

\* The progress lines of a chunk.
C24_ProgressLines(chunk) ==
    { i \in 1..Len(chunk) :
        /\ Len(chunk[i]) >= 3
        /\ SubSeq(chunk[i], 1, 2) = <<"out_time_", "ms=">>
        /\ chunk[i][3] \in Digit }

\* A stdout chunk arrives during an encode with known duration.  Without a
\* progress line nothing is displayed.  With one, whose percent is p: the
\* status is updated with p, which becomes the last displayed percent, when
\* p is at least 0.5 above the last displayed percent or is 100; otherwise
\* nothing is displayed and the last displayed percent stays.
C24_Step ==
    (totalDurationSeconds > 0 /\ stdoutBuf' # stdoutBuf) =>
        LET chunk == stdoutBuf'[Len(stdoutBuf')]
            den == 100 * totalDurationSeconds
            p == percent'
        IN  IF C24_ProgressLines(chunk) = {}
            THEN updates' = updates /\ lastPercent' = lastPercent
            ELSE Cardinality(C24_ProgressLines(chunk)) = 1 =>
                     IF 2 * (p - lastPercent) >= den \/ p = 100 * den
                     THEN /\ updates' = Append(updates, p)
                          /\ lastPercent' = p
                     ELSE /\ updates' = updates
                          /\ lastPercent' = lastPercent

\* lastPercent is the last percent displayed, and -1 before the first.
C24_LastDisplayed ==
    (encPc # "idle" /\ totalDurationSeconds > 0) =>
        lastPercent = (IF updates = << >> THEN 0 - 100 * totalDurationSeconds
                       ELSE updates[Len(updates)])

\* C24: during an encode with known duration the displayed status is
\* updated on a progress line exactly when the computed percent exceeds the
\* last displayed percent by at least 0.5 or equals 100; a line whose
\* percent is less than 0.5 above the last displayed one and below 100
\* causes no update and leaves the last displayed percent unchanged.
C24_UpdateThreshold ==
    /\ [][C24_Step]_vars
    /\ []C24_LastDisplayed

\* C24 witness: at 120 s, 50 percent was displayed for 60000000 and the
\* line 60300000 (50.25 percent) that followed was not displayed.
C24_Witness ==
    /\ totalDurationSeconds = 12000
    /\ Len(stdoutBuf) = 2
    /\ outTimeMs = 60300000
    /\ percent = 60300000
    /\ updates = << 50 * PercentDen(12000) >>
    /\ lastPercent = 50 * PercentDen(12000)

-----------------------------------------------------------------------------
(* C25: an encode with unknown duration *)

\* With an unknown duration there is no progress bar, no percent is
\* computed and none is displayed.
C25_NothingDisplayed ==
    (encPc # "idle" /\ totalDurationSeconds = 0) =>
        /\ ~progressBar
        /\ updates = << >>
        /\ percent = -1
        /\ outTimeMs = -1
        /\ lastPercent = -1

\* With an unknown duration every data event adds its chunk at the end of
\* the buffer of its stream, and nothing leaves the buffers.
C25_ChunksCollected ==
    (totalDurationSeconds = 0 /\ encPc = "running") =>
        /\ Len(stdoutBuf') >= Len(stdoutBuf)
        /\ Len(stderrBuf') >= Len(stderrBuf)
        /\ SubSeq(stdoutBuf', 1, Len(stdoutBuf)) = stdoutBuf
        /\ SubSeq(stderrBuf', 1, Len(stderrBuf)) = stderrBuf
        /\ encPc' = "running" =>
               Len(stdoutBuf') + Len(stderrBuf')
                   = Len(stdoutBuf) + Len(stderrBuf) + 1
        /\ stdoutBuf' # stdoutBuf
               => stdoutBuf'[Len(stdoutBuf')] \in StdoutChunks
        /\ stderrBuf' # stderrBuf
               => stderrBuf'[Len(stderrBuf')] \in StderrChunks

\* C25: when the total duration is unknown (0), no percentage or ETA status
\* is ever displayed during the encode, whatever progress lines the engine
\* emits, while the chunks of the engine's stdout and stderr are still
\* collected.
C25_UnknownDurationSilent ==
    /\ []C25_NothingDisplayed
    /\ [][C25_ChunksCollected]_vars

\* C25 witness: with an unknown duration the engine has emitted the progress
\* line out_time_ms=60000000 and a line on stderr; both chunks are in the
\* buffers and nothing has been displayed.
C25_Witness ==
    /\ totalDurationSeconds = 0
    /\ encPc = "running"
    /\ stdoutBuf = << << OutTimeLine(Decimal(60000000)), << >> >> >>
    /\ stderrBuf = << << <<"Unknown encoder">>, << >> >> >>
    /\ updates = << >>

-----------------------------------------------------------------------------
(* C26: how encodeWithProgress settles *)

\* The engine's error text, a newline, and its output text, as lines.
C26_Combined == JoinedLines(stderrBuf) \o JoinedLines(stdoutBuf)

\* C26: encodeWithProgress settles exactly once, when the engine closes: it
\* has settled if and only if the engine has closed; it has resolved if and
\* only if the exit code is 0; otherwise it has rejected with an error that
\* carries the exit code and the lines at the end of the engine's combined
\* error and output text, 20 of them at most.
C26_SettlesOnClose ==
    /\ settled = (IF encPc \in {"resolved", "rejected"} THEN 1 ELSE 0)
    /\ (childCode # -1) <=> (settled = 1)
    /\ (encPc = "resolved") <=> (childCode = 0)
    /\ encPc # "rejected" => errorCode = -1 /\ lastLines = << >>
    /\ encPc = "rejected" =>
           /\ errorCode = childCode
           /\ Len(lastLines) <= 20
           /\ Len(lastLines) = Min(20, Len(C26_Combined))
           /\ lastLines = SubSeq(C26_Combined,
                                 Len(C26_Combined) - Len(lastLines) + 1,
                                 Len(C26_Combined))

\* C26 witness: the engine wrote more than 20 lines and exited with code
\* 255; the call has rejected with that code and the last 20 lines.
C26_Witness ==
    /\ encPc = "rejected"
    /\ childCode = 255
    /\ errorCode = 255
    /\ Len(C26_Combined) > 20
    /\ Len(lastLines) = 20
    /\ stdoutBuf # << >>

-----------------------------------------------------------------------------
(* C27: the temporary copies of the helper binaries *)

\* Temporary copies of one helper that the run has extracted.
C27_Copies(cached, name) == IF cached = name THEN 0 ELSE 1

\* C27: per run at most one temporary copy of each embedded helper binary
\* is extracted; when the run has ended no extracted copy is left; and a
\* failed removal of the thumbnail leaves the exit code of a successful
\* encode at 0.
C27_HelperCopiesRemoved ==
    /\ tempBinaries = C27_Copies(ffmpegSpawnPathCached, "ffmpeg")
                          + C27_Copies(ffprobeSpawnPathCached, "ffprobe")
    /\ pc = "done" => tempBinaries = 0
    /\ (pc = "done" /\ EncodeSucceeded) => exitCode = 0

-----------------------------------------------------------------------------
(* C28: promptForPath *)

\* A line without its leading and its trailing double quote, if it has them.
C28_Unquoted(str) ==
    LET a == IF str # << >> /\ Head(str) = Quote THEN Tail(str) ELSE str
    IN  IF a # << >> /\ a[Len(a)] = Quote
        THEN SubSeq(a, 1, Len(a) - 1) ELSE a

\* C28: promptForPath returns the entered line with surrounding whitespace
\* trimmed and only a leading and a trailing double quote removed: every
\* character strictly inside the path, a double quote included, is returned
\* unchanged.
C28_OnlyOuterQuotes ==
    promptPc = "returned" => promptReturn = C28_Unquoted(Trim(answer))

-----------------------------------------------------------------------------
(* C29: progress lines and the chunks of the engine's stdout *)

\* The state of the closure after the spawn, lines 570-571.
C29_Start ==
    [lastPercent |-> 0 - PercentDen(totalDurationSeconds),
     outTimeMs |-> -1, percent |-> -1, updates |-> << >>]

\* What onProgressLine leaves when the engine's stdout arrives as one chunk:
\* the lines of the whole text, in order.
C29_Unsplit ==
    ForEachLine(C29_Start, JoinedLines(stdoutBuf), totalDurationSeconds)

\* C29 as stated: during an encode the last out_time_ms recognised, the
\* percent computed from it and the percents displayed are those of the
\* unsplit stdout text, however the text was delivered in chunks, a chunk
\* that ends in the middle of an out_time_ms line included.
C29_ChunkingIndependent ==
    encPc = "running" =>
        /\ outTimeMs = C29_Unsplit.outTimeMs
        /\ percent = C29_Unsplit.percent
        /\ updates = C29_Unsplit.updates
        /\ lastPercent = C29_Unsplit.lastPercent

\* The two chunks of out_time_ms=60000000 at 120 s: 600 was recognised and
\* displayed, 50 percent was not.
C29_SplitLine ==
    /\ totalDurationSeconds = 12000
    /\ stdoutBuf = << << OutTimeLine(<<"6", "0", "0">>) >>,
                      << <<"0", "0", "0", "0", "0">>, << >> >> >>
    /\ updates = << 600 >>
    /\ C29_Unsplit.updates = << 50 * PercentDen(12000) >>

-----------------------------------------------------------------------------
(* C30: the displayed percents never fall *)

\* The percents displayed so far are in [0, 100] and in non-decreasing
\* order.
C30_Displayed ==
    /\ \A i \in 1..Len(updates) :
          0 <= updates[i] /\ updates[i] <= FullPercent(totalDurationSeconds)
    /\ \A i, j \in 1..Len(updates) : i < j => updates[i] <= updates[j]

\* The spawn sets lastPercent to -1; from then on a step leaves it or
\* raises it, and a progress line whose out_time_ms is below that of the
\* last displayed percent displays nothing lower.
C30_LastPercentStep ==
    /\ (encPc = "idle" /\ encPc' = "running")
          => lastPercent' = 0 - PercentDen(totalDurationSeconds)
    /\ encPc = "running" =>
          /\ lastPercent' >= lastPercent
          /\ (updates # << >> /\ updates' # updates)
                => /\ Len(updates') > Len(updates)
                   /\ updates'[Len(updates')] >= updates[Len(updates)]

\* C30: within one encode the percents displayed are non-decreasing and
\* each is in [0, 100]; lastPercent starts at -1 and only increases or
\* stays; a progress line with an earlier out_time_ms than one displayed
\* never lowers the displayed percent.
C30_DisplayedNeverFalls ==
    /\ []C30_Displayed
    /\ [][C30_LastPercentStep]_vars

\* C30 witness: at 120 s, 50 percent was displayed for 60000000; the line
\* 500000 (0.42 percent) came after it and nothing was displayed for it.
C30_Witness ==
    /\ totalDurationSeconds = 12000
    /\ stdoutBuf = << << OutTimeLine(Decimal(60000000)), << >> >>,
                      << OutTimeLine(Decimal(500000)), << >> >> >>
    /\ outTimeMs = 500000
    /\ updates = << 50 * PercentDen(12000) >>
    /\ lastPercent = 50 * PercentDen(12000)

====
